---- MODULE Spec2Model ----
(***************************************************************************)
(* Model of the cloud-armor-rules library (package cloudarmor) and of the  *)
(* test flow of its CLI.                                                   *)
(*                                                                         *)
(* Go strings whose characters matter (header names, error messages,       *)
(* failure descriptions) are sequences of code points.  Strings that are   *)
(* only compared for equality (test names, header values, attribute names, *)
(* scalar attribute values) are TLA+ strings.  A nil struct pointer is the *)
(* record NilRef; a Go map is a record [nil, m] because a nil map and an   *)
(* empty map are different values that read alike.                         *)
(***************************************************************************)
EXTENDS Integers, Sequences, FiniteSets, TLC

VARIABLES
    input,      \* the externally supplied attribute document, decoded
    vars,       \* the *Variables handed back to the caller, or NilRef
    hdrs,       \* the Headers returned by HTTPHeaders
    op,         \* entry point of the attribute API that has run
    resolved,   \* the latest ResolveName call: name, value, found flag
    doc,        \* the test-suite document, decoded (one record per test)
    prg,        \* the compiled rule (cel.Program)
    ts,         \* the *TestSuite returned by TestSuiteFromYAML, or NilSuite
    loadErr,    \* the error returned by TestSuiteFromYAML, NoErr when nil
    statuses,   \* result of the latest RunRuleValidation
    prev,       \* result of the RunRuleValidation before the latest
    nRuns,      \* number of RunRuleValidation calls made
    nEval,      \* number of prg.Eval calls made
    report,     \* the PASS/FAIL lines main has printed
    phase,      \* "start", then "loaded" or "rejected" by TestSuiteFromYAML
    opts,       \* the Version options handed to NewRules, in order
    rules,      \* the *Rules and error returned by NewRules, or NoRules
    engine,     \* what the engine's env.Compile answers for the rule text
    compiled,   \* the (ast, error) returned by Rules.Compile, or NotCompiled
    macroArg,   \* the argument expression of a has(...) call
    expansion,  \* what hasWithIndexMacroFactory returned for macroArg
    ver,        \* the -version flag of the CLI
    expr,       \* the rule text the CLI hands to newAST
    sent,       \* the text newAST handed to Compile, or NotSent
    fn,         \* the library function that has been called, or "none"
    arg,        \* the string argument of the library function
    ret         \* what the library function returned

vars_attr  == <<input, vars, hdrs, op, resolved>>
vars_rules == <<opts, rules, engine, compiled, macroArg, expansion, ver,
               expr, sent>>
vars_funcs == <<fn, arg, ret>>
vars_suite == <<doc, prg, ts, loadErr, statuses, prev, nRuns, nEval, report,
               phase>>
allvars    == <<input, vars, hdrs, op, resolved, doc, prg, ts, loadErr,
                statuses, prev, nRuns, nEval, report, phase, opts, rules,
                engine, compiled, macroArg, expansion, ver, expr, sent, fn,
                arg, ret>>

(***************************************************************************)
(* Bounds of the model.                                                    *)
(***************************************************************************)
MaxHdrs  == 2   \* entries of an input header map
MaxCases == 2   \* test cases of a suite
MaxRuns  == 2   \* RunRuleValidation calls on one loaded suite

(***************************************************************************)
(* References and maps.                                                    *)
(***************************************************************************)
NilRef == [ref |-> "nil"]

EmptyFcn == [k \in {} |-> ""]
NilMap   == [nil |-> TRUE, m |-> EmptyFcn]
MkMap(f) == [nil |-> FALSE, m |-> f]

\* m[k] = val on a map's entries: overwrite or create.
Put(f, k, val) == [x \in (DOMAIN f) \cup {k} |-> IF x = k THEN val ELSE f[x]]

(***************************************************************************)
(* strings.ToLower, by code point: ASCII A-Z and the Latin-1 capitals map  *)
(* to the letter 32 above; every other code point of the model's alphabet  *)
(* has no lower-case mapping.                                              *)
(***************************************************************************)
ToLowerRune(c) ==
    IF c \in 65..90 THEN c + 32
    ELSE IF c \in (192..222) \ {215} THEN c + 32
    ELSE c

ToLower(s) == [i \in 1..Len(s) |-> ToLowerRune(s[i])]

IsUpperRune(c) == c \in 65..90 \/ c \in (192..222) \ {215}
HasUpper(s)    == \E i \in 1..Len(s) : IsUpperRune(s[i])

(***************************************************************************)
(* for k, val := range headers { headers[strings.ToLower(k)] = val }       *)
(* The set of maps the loop can leave behind.  Go visits the entries in an *)
(* unspecified order, reads val when it reaches the entry, and an entry    *)
(* created during the iteration may be produced later or skipped.          *)
(* todo: the entries the iteration still produces.                         *)
(***************************************************************************)
\* The loop had it stored each value back under the key it came from.
RangeSameKey(f, todo) == {Put(f, k, f[k]) : k \in todo} \cup {f}

RECURSIVE RangeToLower(_, _)
RangeToLower(f, todo) ==
    IF todo = {} THEN {f}
    ELSE UNION { LET lk      == ToLower(k)
                     f2      == Put(f, lk, f[k])
                     created == lk \notin DOMAIN f
                     rest    == todo \ {k}
                 IN  RangeToLower(f2, rest) \cup
                     (IF created THEN RangeToLower(f2, rest \cup {lk}) ELSE {})
               : k \in todo }

\* HTTPHeaders(headers): the possible results.  Ranging over a nil map
\* runs no iteration and the nil map is returned.
HTTPHeaders(headers) ==
    IF headers.nil THEN {headers}
    ELSE { MkMap(f) : f \in RangeToLower(headers.m, DOMAIN headers.m) }

(***************************************************************************)
(* The attribute records.                                                  *)
(***************************************************************************)
ZeroRequest == [Method |-> "", Headers |-> NilMap, Path |-> "", Query |-> "",
                Scheme |-> ""]
ZeroOrigin  == [IP |-> "", RegionCode |-> "", ASN |-> 0, UserIP |-> "",
                TLSJA3Fingerprint |-> "", TLSJA4Fingerprint |-> ""]
ZeroRecaptchaExemption == [Valid |-> FALSE]
ZeroRecaptchaAction    == [Score |-> 0, CaptchaStatus |-> "", Action |-> "",
                           Valid |-> FALSE]
ZeroRecaptchaSession   == [Score |-> 0, Valid |-> FALSE]
ZeroToken     == [RecaptchaExemption |-> NilRef, RecaptchaAction |-> NilRef,
                  RecaptchaSession |-> NilRef]
ZeroVariables == [Request |-> NilRef, Origin |-> NilRef, Token |-> NilRef]

(***************************************************************************)
(* SafeVariables(v): the possible results, one per outcome of the header   *)
(* loop.  Each step is the corresponding if-statement of the function.     *)
(***************************************************************************)
SafeRequest(v) ==
    IF v.Request = NilRef THEN [v EXCEPT !.Request = ZeroRequest] ELSE v

SafeHeaders(v) ==
    IF v.Request.Headers.nil
    THEN [v EXCEPT !.Request.Headers = MkMap(EmptyFcn)] ELSE v

LowerHeaders(v) ==
    { [v EXCEPT !.Request.Headers = MkMap(f)] :
        f \in RangeToLower(v.Request.Headers.m, DOMAIN v.Request.Headers.m) }

SafeOrigin(v) ==
    IF v.Origin = NilRef THEN [v EXCEPT !.Origin = ZeroOrigin] ELSE v

SafeTokenNoop(v) == v

SafeToken(v) ==
    LET v1 == IF v.Token = NilRef THEN [v EXCEPT !.Token = ZeroToken] ELSE v
        v2 == IF v1.Token.RecaptchaExemption = NilRef
              THEN [v1 EXCEPT !.Token.RecaptchaExemption = ZeroRecaptchaExemption]
              ELSE v1
        v3 == IF v2.Token.RecaptchaAction = NilRef
              THEN [v2 EXCEPT !.Token.RecaptchaAction = ZeroRecaptchaAction]
              ELSE v2
    IN  IF v3.Token.RecaptchaSession = NilRef
        THEN [v3 EXCEPT !.Token.RecaptchaSession = ZeroRecaptchaSession]
        ELSE v3

SafeVariables(v) ==
    { SafeToken(SafeOrigin(w)) : w \in LowerHeaders(SafeHeaders(SafeRequest(v))) }

(***************************************************************************)
(* TestCase and SafeTestCase.                                              *)
(***************************************************************************)
TestCase(name, when, expectOutput, expectError) ==
    [Name |-> name, When |-> when, ExpectOutput |-> expectOutput,
     ExpectError |-> expectError]

SafeTestCase(t) ==
    LET w == IF t.When = NilRef THEN ZeroVariables ELSE t.When
    IN  { [t EXCEPT !.When = sv] : sv \in SafeVariables(w) }

(***************************************************************************)
(* Attribute documents of the model.  A document is what yaml.Unmarshal    *)
(* leaves in the struct: NilRef for every key the document omits.          *)
(* Header names: "A", "a", "Ab", "aB", "ab", "É" (U+00C9).                 *)
(***************************************************************************)
HdrKeys == {<<65>>, <<97>>, <<65, 98>>, <<97, 66>>, <<97, 98>>, <<201>>}
HdrVals == {"1", "2"}

HeaderMaps ==
    {NilMap} \cup
    { MkMap(f) : f \in UNION { [K -> HdrVals] :
                     K \in {S \in SUBSET HdrKeys : Cardinality(S) <= MaxHdrs} } }

SampleRequest(h) == [Method |-> "GET", Headers |-> h, Path |-> "/search",
                     Query |-> "q=google%21", Scheme |-> "https"]
SampleOrigin == [IP |-> "1.2.3.4", RegionCode |-> "US", ASN |-> 15169,
                 UserIP |-> "5.6.7.8", TLSJA3Fingerprint |-> "ja3",
                 TLSJA4Fingerprint |-> "ja4"]
SampleRecaptchaAction  == [Score |-> 5, CaptchaStatus |-> "PASS",
                           Action |-> "login", Valid |-> TRUE]
SampleRecaptchaSession == [Score |-> 9, Valid |-> TRUE]

RawRequests == {NilRef} \cup { SampleRequest(h) : h \in HeaderMaps }
RawOrigins  == {NilRef, SampleOrigin}
RawTokens   ==
    {NilRef} \cup
    [RecaptchaExemption : {NilRef, [Valid |-> TRUE]},
     RecaptchaAction    : {NilRef, SampleRecaptchaAction},
     RecaptchaSession   : {NilRef, SampleRecaptchaSession}]
RawVariables == [Request : RawRequests, Origin : RawOrigins, Token : RawTokens]

\* A document the YAML decoder rejects.
Malformed == [ref |-> "malformed"]

(***************************************************************************)
(* String helpers.                                                         *)
(***************************************************************************)
\* strings.Contains(s, substr)
Contains(s, substr) ==
    \E i \in 1..(Len(s) + 1) :
        /\ i + Len(substr) - 1 <= Len(s)
        /\ SubSeq(s, i, i + Len(substr) - 1) = substr

\* %q of a string without characters that need escaping: the string
\* between double quotes.
Quote(s) == <<34>> \o s \o <<34>>

\* %v of a bool
FmtBool(b) == IF b THEN <<116, 114, 117, 101>>          \* "true"
              ELSE <<102, 97, 108, 115, 101>>           \* "false"

GotError      == <<103, 111, 116, 32, 101, 114, 114, 111, 114, 32>>
                                                        \* "got error "
WantedError   == <<44, 32, 119, 97, 110, 116, 101, 100, 32, 101, 114, 114,
                   111, 114, 32, 99, 111, 110, 116, 97, 105, 110, 105, 110,
                   103, 32>>          \* ", wanted error containing "
ExpectedResult == <<101, 120, 112, 101, 99, 116, 101, 100, 32, 114, 101, 115,
                    117, 108, 116, 32>>                 \* "expected result "
CommaGot      == <<44, 32, 103, 111, 116, 32>>          \* ", got "
NoSuchKey     == <<110, 111, 32, 115, 117, 99, 104, 32, 107, 101, 121, 58,
                   32>>                                 \* "no such key: "
UserAgentKey  == <<117, 115, 101, 114, 45, 97, 103, 101, 110, 116>>
                                                        \* "user-agent"
UserAgentHdr  == <<85, 115, 101, 114, 45, 65, 103, 101, 110, 116>>
                                                        \* "User-Agent"

(***************************************************************************)
(* Variables.ResolveName: the value and the found flag.                    *)
(***************************************************************************)
Resolved(val) == [val |-> val, found |-> TRUE]
NotFound      == [val |-> NilRef, found |-> FALSE]

\* The switch with a default branch that reports the name as resolved.
ResolveNameNilFound(v, name) ==
    CASE name = "request.method"  -> Resolved(v.Request.Method)
      [] name = "request.headers" -> Resolved(v.Request.Headers)
      [] name = "request.path"    -> Resolved(v.Request.Path)
      [] name = "request.query"   -> Resolved(v.Request.Query)
      [] name = "request.scheme"  -> Resolved(v.Request.Scheme)
      [] name = "origin.ip"       -> Resolved(v.Origin.IP)
      [] name = "origin.region_code" -> Resolved(v.Origin.RegionCode)
      [] name = "origin.asn"      -> Resolved(v.Origin.ASN)
      [] name = "origin.user_ip"  -> Resolved(v.Origin.UserIP)
      [] name = "origin.tls_ja3_fingerprint" ->
             Resolved(v.Origin.TLSJA3Fingerprint)
      [] name = "origin.tls_ja4_fingerprint" ->
             Resolved(v.Origin.TLSJA4Fingerprint)
      [] name = "token.recaptcha_exemption.valid" ->
             Resolved(v.Token.RecaptchaExemption.Valid)
      [] name = "token.recaptcha_action.score" ->
             Resolved(v.Token.RecaptchaAction.Score)
      [] name = "token.recaptcha_action.captcha_status" ->
             Resolved(v.Token.RecaptchaAction.CaptchaStatus)
      [] name = "token.recaptcha_action.action" ->
             Resolved(v.Token.RecaptchaAction.Action)
      [] name = "token.recaptcha_action.valid" ->
             Resolved(v.Token.RecaptchaAction.Valid)
      [] name = "token.recaptcha_session.score" ->
             Resolved(v.Token.RecaptchaSession.Score)
      [] name = "token.recaptcha_session.valid" ->
             Resolved(v.Token.RecaptchaSession.Valid)
      [] OTHER -> Resolved(NilRef)

ResolveName(v, name) ==
    CASE name = "request.method"  -> Resolved(v.Request.Method)
      [] name = "request.headers" -> Resolved(v.Request.Headers)
      [] name = "request.path"    -> Resolved(v.Request.Path)
      [] name = "request.query"   -> Resolved(v.Request.Query)
      [] name = "request.scheme"  -> Resolved(v.Request.Scheme)
      [] name = "origin.ip"       -> Resolved(v.Origin.IP)
      [] name = "origin.region_code" -> Resolved(v.Origin.RegionCode)
      [] name = "origin.asn"      -> Resolved(v.Origin.ASN)
      [] name = "origin.user_ip"  -> Resolved(v.Origin.UserIP)
      [] name = "origin.tls_ja3_fingerprint" ->
             Resolved(v.Origin.TLSJA3Fingerprint)
      [] name = "origin.tls_ja4_fingerprint" ->
             Resolved(v.Origin.TLSJA4Fingerprint)
      [] name = "token.recaptcha_exemption.valid" ->
             Resolved(v.Token.RecaptchaExemption.Valid)
      [] name = "token.recaptcha_action.score" ->
             Resolved(v.Token.RecaptchaAction.Score)
      [] name = "token.recaptcha_action.captcha_status" ->
             Resolved(v.Token.RecaptchaAction.CaptchaStatus)
      [] name = "token.recaptcha_action.action" ->
             Resolved(v.Token.RecaptchaAction.Action)
      [] name = "token.recaptcha_action.valid" ->
             Resolved(v.Token.RecaptchaAction.Valid)
      [] name = "token.recaptcha_session.score" ->
             Resolved(v.Token.RecaptchaSession.Score)
      [] name = "token.recaptcha_session.valid" ->
             Resolved(v.Token.RecaptchaSession.Valid)
      [] OTHER -> NotFound

\* Variables.Parent: always nil.
Parent(v) == NilRef

(***************************************************************************)
(* prg.Eval(tc.When) for the compiled rules of the model.  The program     *)
(* reads its variables through ResolveName on the activation it is given.  *)
(* out: the boolean result; err: the error message, <<>> when nil;         *)
(* act: the activation after the call (ResolveName writes nothing).        *)
(***************************************************************************)
MethodRule == "request.method == 'GET'"
HeaderRule == "request.headers['user-agent'] == 'Mozilla/5.0'"
Programs   == {MethodRule, HeaderRule}

\* An evaluation that drains the header map it has resolved.
EvalDraining(p, v) ==
    IF p = MethodRule
    THEN [out |-> ResolveName(v, "request.method").val = "GET",
          err |-> <<>>, act |-> v]
    ELSE LET h == ResolveName(v, "request.headers").val
         IN  IF UserAgentKey \in DOMAIN h.m
             THEN [out |-> h.m[UserAgentKey] = "Mozilla/5.0", err |-> <<>>,
                   act |-> [v EXCEPT !.Request.Headers = MkMap(EmptyFcn)]]
             ELSE [out |-> FALSE, err |-> NoSuchKey \o UserAgentKey,
                   act |-> v]

Eval(p, v) ==
    IF p = MethodRule
    THEN [out |-> ResolveName(v, "request.method").val = "GET",
          err |-> <<>>, act |-> v]
    ELSE LET h == ResolveName(v, "request.headers").val
         IN  IF UserAgentKey \in DOMAIN h.m
             THEN [out |-> h.m[UserAgentKey] = "Mozilla/5.0", err |-> <<>>,
                   act |-> v]
             ELSE [out |-> FALSE, err |-> NoSuchKey \o UserAgentKey,
                   act |-> v]

(***************************************************************************)
(* RunRuleValidation.                                                      *)
(***************************************************************************)
TestStatus(name, pass, fail) == [Name |-> name, Pass |-> pass, Fail |-> fail]

\* The loop body with the expected-error substring never compared.
CaseStatusAnyError(tc, e) ==
    IF e.err # <<>>
    THEN IF tc.ExpectError # <<>>
         THEN TestStatus(tc.Name, TRUE, <<>>)
         ELSE TestStatus(tc.Name, FALSE, e.err)
    ELSE IF e.out = tc.ExpectOutput
         THEN TestStatus(tc.Name, TRUE, <<>>)
         ELSE TestStatus(tc.Name, FALSE,
                  ExpectedResult \o FmtBool(tc.ExpectOutput) \o CommaGot
                      \o FmtBool(e.out))

\* The loop body comparing the result with true instead of ExpectOutput.
CaseStatusExpectTrue(tc, e) ==
    IF e.err # <<>>
    THEN IF tc.ExpectError # <<>>
         THEN IF ~Contains(e.err, tc.ExpectError)
              THEN TestStatus(tc.Name, FALSE,
                       GotError \o Quote(e.err) \o WantedError
                           \o Quote(tc.ExpectError))
              ELSE TestStatus(tc.Name, TRUE, <<>>)
         ELSE TestStatus(tc.Name, FALSE, e.err)
    ELSE IF e.out = TRUE
         THEN TestStatus(tc.Name, TRUE, <<>>)
         ELSE TestStatus(tc.Name, FALSE,
                  ExpectedResult \o FmtBool(tc.ExpectOutput) \o CommaGot
                      \o FmtBool(e.out))

\* The loop body leaving Fail unset when an undeclared error is raised.
CaseStatusSilent(tc, e) ==
    IF e.err # <<>>
    THEN IF tc.ExpectError # <<>>
         THEN IF ~Contains(e.err, tc.ExpectError)
              THEN TestStatus(tc.Name, FALSE,
                       GotError \o Quote(e.err) \o WantedError
                           \o Quote(tc.ExpectError))
              ELSE TestStatus(tc.Name, TRUE, <<>>)
         ELSE TestStatus(tc.Name, FALSE, <<>>)
    ELSE IF e.out = tc.ExpectOutput
         THEN TestStatus(tc.Name, TRUE, <<>>)
         ELSE TestStatus(tc.Name, FALSE,
                  ExpectedResult \o FmtBool(tc.ExpectOutput) \o CommaGot
                      \o FmtBool(e.out))

\* The loop body: the status appended for tc, given e = prg.Eval(tc.When).
CaseStatus(tc, e) ==
    IF e.err # <<>>
    THEN IF tc.ExpectError # <<>>
         THEN IF ~Contains(e.err, tc.ExpectError)
              THEN TestStatus(tc.Name, FALSE,
                       GotError \o Quote(e.err) \o WantedError
                           \o Quote(tc.ExpectError))
              ELSE TestStatus(tc.Name, TRUE, <<>>)
         ELSE TestStatus(tc.Name, FALSE, e.err)
    ELSE IF e.out = tc.ExpectOutput
         THEN TestStatus(tc.Name, TRUE, <<>>)
         ELSE TestStatus(tc.Name, FALSE,
                  ExpectedResult \o FmtBool(tc.ExpectOutput) \o CommaGot
                      \o FmtBool(e.out))

\* The loop with a return where the code has continue.
RECURSIVE RunLoopAbort(_, _, _, _)
RunLoopAbort(p, cases, i, acc) ==
    IF i > Len(cases) THEN [statuses |-> acc, cases |-> cases]
    ELSE LET e  == Eval(p, cases[i].When)
             st == CaseStatus(cases[i], e)
         IN  IF e.err # <<>>
             THEN [statuses |-> Append(acc, st), cases |-> cases]
             ELSE RunLoopAbort(p, [cases EXCEPT ![i].When = e.act], i + 1,
                               Append(acc, st))

\* for _, tc := range testCases { ... }: the statuses after the cases from
\* the i-th on, and the test cases as the evaluations leave them.
RECURSIVE RunLoop(_, _, _, _)
RunLoop(p, cases, i, acc) ==
    IF i > Len(cases) THEN [statuses |-> acc, cases |-> cases]
    ELSE LET e  == Eval(p, cases[i].When)
             st == CaseStatus(cases[i], e)
         IN  RunLoop(p, [cases EXCEPT ![i].When = e.act], i + 1,
                     Append(acc, st))

(***************************************************************************)
(* Test-suite documents of the model.  A test of the document records      *)
(* whether `expect` and `error` are written and with which value.          *)
(***************************************************************************)
NoErr == [msg |-> "", name |-> ""]
NilSuite == [nil |-> TRUE, Tests |-> <<>>]

Absent      == [set |-> FALSE, val |-> FALSE]
AbsentStr   == [set |-> FALSE, val |-> <<>>]
Written(x)  == [set |-> TRUE, val |-> x]

DocExpects == {Absent, Written(TRUE), Written(FALSE)}
DocErrors  == {AbsentStr, Written(<<>>),
               Written(<<110, 111, 32, 115, 117, 99, 104, 32, 107, 101, 121>>),
                                                        \* "no such key"
               Written(<<98, 97, 100>>)}                \* "bad"
DocNames   == {"t1", "t2"}
DocWhens   ==
    { NilRef,
      [Request |-> SampleRequest(MkMap((UserAgentHdr :> "Mozilla/5.0"))),
       Origin  |-> NilRef,
       Token   |-> NilRef] }
DocTests   == [name : DocNames, when : DocWhens, expect : DocExpects,
               error : DocErrors]
DocSuites  ==
    {[ok |-> FALSE, tests |-> <<>>]} \cup
    { [ok |-> TRUE, tests |-> t] :
        t \in UNION { [1..n -> DocTests] : n \in 0..MaxCases } }

\* yaml.Unmarshal of one test into a TestCase: an omitted key leaves the
\* field at its zero value.
Decode(d) ==
    TestCase(d.name, d.when,
             IF d.expect.set THEN d.expect.val ELSE FALSE,
             IF d.error.set THEN d.error.val ELSE <<>>)

(***************************************************************************)
(* TestSuiteFromYAML.                                                      *)
(***************************************************************************)
\* A load that rejects nothing.
HasBothNever(t) == FALSE

\* if t.ExpectOutput && t.ExpectError != ""
HasBoth(t) == t.ExpectOutput /\ t.ExpectError # <<>>

\* The loop over ts.Tests from the i-th test on: the possible results.
RECURSIVE LoadLoop(_, _)
LoadLoop(tests, i) ==
    IF i > Len(tests)
    THEN {[suite |-> [nil |-> FALSE, Tests |-> tests], err |-> NoErr]}
    ELSE IF HasBoth(tests[i])
         THEN {[suite |-> NilSuite,
                err |-> [msg |-> "test case %q has both expect and error",
                         name |-> tests[i].Name]]}
         ELSE UNION { LoadLoop([tests EXCEPT ![i] = t], i + 1) :
                        t \in SafeTestCase(tests[i]) }

(***************************************************************************)
(* The parts of the state a specification does not exercise stay as the    *)
(* program starts them.                                                    *)
(***************************************************************************)
NoResolve   ==
    [called |-> FALSE, name |-> "", val |-> NilRef, found |-> FALSE,
     parent |-> NilRef]
NoRules     == [ref |-> "not called"]
NotCompiled == [ref |-> "not called"]
NoExpansion == [ref |-> "not called"]
NoFnError   == [msg |-> "", at |-> 0]
NoReturn    == [kind |-> "not called", val |-> <<>>, err |-> NoFnError]

AttrIdle ==
    /\ input = NilRef /\ vars = NilRef /\ hdrs = NilMap /\ op = "none"
    /\ resolved = NoResolve

SuiteIdle ==
    /\ doc = [ok |-> TRUE, tests |-> <<>>] /\ prg = "none"
    /\ ts = NilSuite /\ loadErr = NoErr /\ phase = "start"
    /\ statuses = <<>> /\ prev = <<>> /\ nRuns = 0 /\ nEval = 0
    /\ report = <<>>

NotSent == [called |-> FALSE, text |-> <<>>]

RulesIdle ==
    /\ opts = <<>> /\ rules = NoRules /\ engine = NilRef
    /\ compiled = NotCompiled /\ macroArg = NilRef /\ expansion = NoExpansion
    /\ ver = "" /\ expr = <<>> /\ sent = NotSent

FuncsIdle == fn = "none" /\ arg = <<>> /\ ret = NoReturn

InitSuite ==
    /\ doc \in DocSuites
    /\ prg \in Programs
    /\ ts = NilSuite /\ loadErr = NoErr /\ phase = "start"
    /\ statuses = <<>> /\ prev = <<>> /\ nRuns = 0 /\ nEval = 0
    /\ report = <<>>
    /\ AttrIdle /\ RulesIdle /\ FuncsIdle

TestSuiteFromYAML ==
    /\ phase = "start"
    /\ IF ~doc.ok
       THEN /\ ts' = NilSuite
            /\ loadErr' = [msg |-> "yaml: unmarshal errors", name |-> ""]
            /\ phase' = "rejected"
       ELSE \E r \in LoadLoop([i \in 1..Len(doc.tests) |-> Decode(doc.tests[i])], 1) :
                /\ ts' = r.suite
                /\ loadErr' = r.err
                /\ phase' = IF r.err = NoErr THEN "loaded" ELSE "rejected"
    /\ UNCHANGED <<doc, prg, statuses, prev, nRuns, nEval, report>>
    /\ UNCHANGED <<vars_attr, vars_rules, vars_funcs>>

RunRuleValidation ==
    /\ phase = "loaded"
    /\ nRuns < MaxRuns
    /\ LET r == RunLoop(prg, ts.Tests, 1, <<>>)
       IN  /\ statuses' = r.statuses
           /\ ts' = [ts EXCEPT !.Tests = r.cases]
           /\ nEval' = nEval + Len(r.statuses)
    /\ prev' = statuses
    /\ nRuns' = nRuns + 1
    /\ report' = <<>>
    /\ UNCHANGED <<doc, prg, loadErr, phase>>
    /\ UNCHANGED <<vars_attr, vars_rules, vars_funcs>>

\* main: one line per status, FAIL when s.Fail != "" and PASS otherwise.
Report ==
    /\ nRuns >= 1
    /\ report = <<>>
    /\ statuses # <<>>
    /\ report' = [i \in 1..Len(statuses) |->
                    IF statuses[i].Fail # <<>> THEN "FAIL" ELSE "PASS"]
    /\ UNCHANGED <<doc, prg, ts, loadErr, phase, statuses, prev, nRuns, nEval>>
    /\ UNCHANGED <<vars_attr, vars_rules, vars_funcs>>

Next ==
    \/ TestSuiteFromYAML
    \/ RunRuleValidation
    \/ Report

Spec == InitSuite /\ [][Next]_allvars

(***************************************************************************)
(* The attribute API: one action per exported entry point.                 *)
(***************************************************************************)

InitVars ==
    /\ input \in RawVariables \cup {NilRef, Malformed}
    /\ vars = NilRef
    /\ hdrs = NilMap
    /\ op = "none"
    /\ resolved = NoResolve
    /\ SuiteIdle /\ RulesIdle /\ FuncsIdle

\* v := &Variables{}; yaml.Unmarshal(yamlBytes, v); return SafeVariables(v)
VariablesFromYAML ==
    /\ op = "none"
    /\ IF input = Malformed
       THEN /\ vars' = NilRef
            /\ op' = "VariablesFromYAML failed"
       ELSE /\ vars' \in SafeVariables(IF input = NilRef THEN ZeroVariables
                                       ELSE input)
            /\ op' = "VariablesFromYAML"
    /\ UNCHANGED <<input, hdrs, resolved>>
    /\ UNCHANGED <<vars_suite, vars_rules, vars_funcs>>

\* SafeVariables called on a struct the caller built.
CallSafeVariables ==
    /\ op = "none"
    /\ input \notin {NilRef, Malformed}
    /\ vars' \in SafeVariables(input)
    /\ op' = "SafeVariables"
    /\ UNCHANGED <<input, hdrs, resolved>>
    /\ UNCHANGED <<vars_suite, vars_rules, vars_funcs>>

\* SafeTestCase called on a decoded test case; input = NilRef is a test
\* without `when`.
CallSafeTestCase ==
    /\ op = "none"
    /\ input # Malformed
    /\ \E t \in SafeTestCase(TestCase("t", input, FALSE, <<>>)) :
          vars' = t.When
    /\ op' = "SafeTestCase"
    /\ UNCHANGED <<input, hdrs, resolved>>
    /\ UNCHANGED <<vars_suite, vars_rules, vars_funcs>>

\* HTTPHeaders called on the header map of the input.
CallHTTPHeaders ==
    /\ op = "none"
    /\ input \notin {NilRef, Malformed}
    /\ input.Request # NilRef
    /\ hdrs' \in HTTPHeaders(input.Request.Headers)
    /\ op' = "HTTPHeaders"
    /\ UNCHANGED <<input, vars, resolved>>
    /\ UNCHANGED <<vars_suite, vars_rules, vars_funcs>>

NextVars ==
    \/ VariablesFromYAML
    \/ CallSafeVariables
    \/ CallSafeTestCase
    \/ CallHTTPHeaders

SpecVars == InitVars /\ [][NextVars]_allvars

(***************************************************************************)
(* Name resolution on a normalized attribute set.                          *)
(***************************************************************************)
\* The variables declared by the version-2 configuration document.
V2Variables ==
    {"request.method", "request.headers", "request.path", "request.query",
     "request.scheme", "origin.ip", "origin.region_code", "origin.asn",
     "origin.user_ip", "origin.tls_ja3_fingerprint",
     "origin.tls_ja4_fingerprint", "token.recaptcha_exemption.valid",
     "token.recaptcha_action.score", "token.recaptcha_action.captcha_status",
     "token.recaptcha_action.action", "token.recaptcha_action.valid",
     "token.recaptcha_session.score", "token.recaptcha_session.valid",
     "request.body", "request.params"}

\* The names the model resolves: the declared variables, prefixes and
\* extensions of them, and names that differ from them in case only.
ResolveNames ==
    V2Variables \cup
    {"", "request", "origin", "token", "token.recaptcha_action",
     "request.headers.host", "request.method.size", "Request.Method",
     "origin.IP", "headers"}

ResolveInputs ==
    { v \in RawVariables :
        v.Request # NilRef => Cardinality(DOMAIN v.Request.Headers.m) <= 1 }

InitResolve ==
    /\ input \in ResolveInputs \cup {NilRef}
    /\ vars = NilRef
    /\ hdrs = NilMap
    /\ op = "none"
    /\ resolved = NoResolve
    /\ SuiteIdle /\ RulesIdle /\ FuncsIdle

\* The engine asks the activation for a name during prg.Eval.
CallResolveName ==
    /\ op = "VariablesFromYAML"
    /\ ~resolved.called
    /\ \E n \in ResolveNames :
          LET r == ResolveName(vars, n)
          IN  resolved' = [called |-> TRUE, name |-> n, val |-> r.val,
                           found |-> r.found, parent |-> Parent(vars)]
    /\ UNCHANGED <<input, vars, hdrs, op>>
    /\ UNCHANGED <<vars_suite, vars_rules, vars_funcs>>

NextResolve ==
    \/ VariablesFromYAML
    \/ CallResolveName

SpecResolve == InitResolve /\ [][NextResolve]_allvars

(***************************************************************************)
(* The rules environment: NewRules, Compile and the has macro.             *)
(***************************************************************************)
MaxOpts    == 2
MaxVersion == 3

VCurrent == 1
VNext    == 2

\* Version values a caller may pass (uint32, so never negative).
Versions == 0 .. MaxVersion

NoError == [msg |-> "", version |-> 0]
UnsupportedVersion(version) ==
    [msg |-> "unsupported cloud armor version: v%d", version |-> version]

\* One overload of a function declaration.
Overload(name, id, t) ==
    [fn |-> name, id |-> id, args |-> <<t, t>>, ret |-> "bool"]

\* The equality declarations of cloudArmorFunctions with the double
\* pairing left out.
cloudArmorFunctionsNoDouble(version) ==
    { Overload("_==_", "equals" \o "_bool", "bool"),
      Overload("_==_", "equals" \o "_int64", "int"),
      Overload("_==_", "equals" \o "_string", "string"),
      Overload("_!=_", "not_equals" \o "_bool", "bool"),
      Overload("_!=_", "not_equals" \o "_int64", "int"),
      Overload("_!=_", "not_equals" \o "_string", "string") }

\* The equality declarations of cloudArmorFunctions; the version argument
\* is ignored.  The library functions it also binds are the operators of
\* the function library below.
cloudArmorFunctions(version) ==
    { Overload("_==_", "equals" \o "_bool", "bool"),
      Overload("_==_", "equals" \o "_double", "double"),
      Overload("_==_", "equals" \o "_int64", "int"),
      Overload("_==_", "equals" \o "_string", "string"),
      Overload("_!=_", "not_equals" \o "_bool", "bool"),
      Overload("_!=_", "not_equals" \o "_double", "double"),
      Overload("_!=_", "not_equals" \o "_int64", "int"),
      Overload("_!=_", "not_equals" \o "_string", "string") }

\* The _==_ and _!=_ overloads of config/cloud-armor-v2.yaml.
cloudArmorV2 ==
    { Overload("_==_", "equals_bool", "bool"),
      Overload("_==_", "equals_double", "double"),
      Overload("_==_", "equals_int64", "int"),
      Overload("_==_", "equals_string", "string"),
      Overload("_!=_", "not_equals_bool", "bool"),
      Overload("_!=_", "not_equals_double", "double"),
      Overload("_!=_", "not_equals_int64", "int"),
      Overload("_!=_", "not_equals_string", "string") }

\* The _==_ and _!=_ overloads of config/cloud-armor-v1.yaml.
cloudArmorV1 ==
    { Overload("_==_", "equals_bool", "bool"),
      Overload("_==_", "equals_double", "double"),
      Overload("_==_", "equals_int64", "int"),
      Overload("_==_", "equals_string", "string"),
      Overload("_!=_", "not_equals_bool", "bool"),
      Overload("_!=_", "not_equals_double", "double"),
      Overload("_!=_", "not_equals_int64", "int"),
      Overload("_!=_", "not_equals_string", "string") }

\* An environment: the configuration document it was loaded from and the
\* declarations of the document and of the Go options, kept apart.
Env(document, config, version) ==
    [ref |-> "env", document |-> document, config |-> config,
     funcs |-> cloudArmorFunctions(version)]

\* compileOptions with a default branch that falls back to version 1.
compileOptionsDefaultV1(version) ==
    CASE version = 2 ->
           [env |-> Env("cloudArmorV2", cloudArmorV2, version), err |-> NoError]
      [] OTHER ->
           [env |-> Env("cloudArmorV1", cloudArmorV1, version), err |-> NoError]

\* compileOptions handed to cel.NewCustomEnv: the environment, or the
\* error of the configuration option.
compileOptions(version) ==
    CASE version = 1 ->
           [env |-> Env("cloudArmorV1", cloudArmorV1, version), err |-> NoError]
      [] version = 2 ->
           [env |-> Env("cloudArmorV2", cloudArmorV2, version), err |-> NoError]
      [] OTHER ->
           [env |-> NilRef, err |-> UnsupportedVersion(version)]

\* The option Version(version) applied to a Rules value.
Version(version, r) == [r EXCEPT !.version = version]

RECURSIVE ApplyOptions(_, _)
ApplyOptions(r, options) ==
    IF options = <<>> THEN r
    ELSE ApplyOptions(Version(Head(options), r), Tail(options))

NewRules(options) ==
    LET r == ApplyOptions([version |-> VCurrent, env |-> NilRef], options)
        e == compileOptions(r.version)
    IN  [rules |-> [r EXCEPT !.env = e.env], err |-> e.err]

\* What env.Compile reports for an expression: issues with a diagnostic, or
\* a checked expression with its output type.
OutputTypes == {"bool", "int", "uint", "double", "string", "bytes", "dyn",
                "null_type", "map", "list"}
Diagnostics == {"Syntax error: mismatched input",
                "undeclared reference", "found no matching overload"}
EngineOutcomes ==
    { [iss |-> TRUE, diag |-> d, type |-> "none"] : d \in Diagnostics } \cup
    { [iss |-> FALSE, diag |-> "", type |-> t] : t \in OutputTypes }

Ast(type) == [ref |-> "ast", type |-> type]

\* Compile without the check of the output type.
CompileAnyType(e) ==
    IF e.iss THEN [ast |-> NilRef, err |-> e.diag]
    ELSE [ast |-> Ast(e.type), err |-> ""]

Compile(e) ==
    IF e.iss THEN [ast |-> NilRef, err |-> e.diag]
    ELSE IF e.type # "bool"
         THEN [ast |-> NilRef,
               err |-> "expression must evaluate to a boolean value"]
         ELSE [ast |-> Ast(e.type), err |-> ""]

\* Expression trees the parser hands to the has macro.
Ident(name) ==
    [kind |-> "ident", name |-> name]
Literal(type, value) ==
    [kind |-> "literal", type |-> type, value |-> value]
Select(operand, field) ==
    [kind |-> "select", operand |-> operand, field |-> field,
     testOnly |-> FALSE]
Call(function, member, args) ==
    [kind |-> "call", function |-> function, member |-> member,
     args |-> args]
Other(kind) ==
    [kind |-> kind]
NewPresenceTest(operand, field) ==
    [kind |-> "select", operand |-> operand, field |-> field,
     testOnly |-> TRUE]

Index == "_[_]"

Operands == {Ident("x"), Ident("request"),
             Select(Ident("request"), "headers")}
Fields   == {"f", "user-agent", ""}
Keys     == { Literal("string", f) : f \in Fields } \cup
            {Literal("int", "0"), Literal("bool", "true"),
             Literal("bytes", "f"), Ident("f"),
             Select(Ident("x"), "f"),
             Call("_+_", FALSE, <<Literal("string", "f"),
                                  Literal("string", "")>>)}

MacroArgs ==
    { Select(x, f) : x \in Operands, f \in Fields } \cup
    { Call(Index, FALSE, <<x, k>>) : x \in Operands, k \in Keys } \cup
    { Call(Index, TRUE, <<x, k>>) : x \in Operands, k \in Keys } \cup
    { Call(Index, FALSE, <<x>>) : x \in Operands } \cup
    { Call(Index, FALSE, <<x, k, k>>) : x \in Operands, k \in Keys } \cup
    { Call(g, m, <<x, Literal("string", "f")>>) :
          g \in {"_+_", "_==_", "contains", "has"}, m \in BOOLEAN,
          x \in Operands } \cup
    Operands \cup Keys \cup
    { Other(k) : k \in {"list", "map", "struct", "comprehension",
                        "unspecified"} }

NoMatch == [expr |-> NilRef, err |-> NilRef]
Rewrite(e) == [expr |-> e, err |-> NilRef]

\* The macro with the index branch left out.
hasWithIndexMacroFactorySelectOnly(a) ==
    IF a.kind = "select"
    THEN Rewrite(NewPresenceTest(a.operand, a.field))
    ELSE NoMatch

\* The macro accepting any index call, whatever its key.
hasWithIndexMacroFactoryAnyKey(a) ==
    IF a.kind = "select"
    THEN Rewrite(NewPresenceTest(a.operand, a.field))
    ELSE IF a.kind # "call" THEN NoMatch
    ELSE IF a.function # Index THEN NoMatch
    ELSE IF Len(a.args) # 2 THEN NoMatch
    ELSE IF a.args[2].kind # "literal" THEN NoMatch
    ELSE Rewrite(NewPresenceTest(a.args[1], a.args[2].value))

hasWithIndexMacroFactory(a) ==
    IF a.kind = "select"
    THEN Rewrite(NewPresenceTest(a.operand, a.field))
    ELSE IF a.kind # "call" THEN NoMatch
    ELSE IF a.function # Index THEN NoMatch
    ELSE IF a.member \/ Len(a.args) # 2 THEN NoMatch
    ELSE IF a.args[2].kind # "literal" \/ a.args[2].type # "string"
         THEN NoMatch
    ELSE Rewrite(NewPresenceTest(a.args[1], a.args[2].value))

OptionLists ==
    UNION { [1 .. n -> Versions] : n \in 0 .. MaxOpts }

InitRules ==
    /\ opts \in OptionLists
    /\ engine \in EngineOutcomes
    /\ macroArg \in MacroArgs
    /\ rules = NoRules
    /\ compiled = NotCompiled
    /\ expansion = NoExpansion
    /\ ver = "" /\ expr = <<>> /\ sent = NotSent
    /\ AttrIdle /\ SuiteIdle /\ FuncsIdle

CallNewRules ==
    /\ rules = NoRules
    /\ rules' = NewRules(opts)
    /\ UNCHANGED <<opts, engine, compiled, macroArg, expansion>>
    /\ UNCHANGED <<ver, expr, sent>>
    /\ UNCHANGED <<vars_attr, vars_suite, vars_funcs>>

\* The parser expands has(arg) while env.Compile runs.
ExpandHas ==
    /\ rules # NoRules
    /\ rules.rules.env # NilRef
    /\ expansion = NoExpansion
    /\ compiled = NotCompiled
    /\ expansion' = hasWithIndexMacroFactory(macroArg)
    /\ UNCHANGED <<opts, rules, engine, compiled, macroArg>>
    /\ UNCHANGED <<ver, expr, sent>>
    /\ UNCHANGED <<vars_attr, vars_suite, vars_funcs>>

\* Rules.Compile on an environment NewRules built.
CallCompile ==
    /\ rules # NoRules
    /\ rules.rules.env # NilRef
    /\ compiled = NotCompiled
    /\ compiled' = Compile(engine)
    /\ UNCHANGED <<opts, rules, engine, macroArg, expansion>>
    /\ UNCHANGED <<ver, expr, sent>>
    /\ UNCHANGED <<vars_attr, vars_suite, vars_funcs>>

NextRules ==
    \/ CallNewRules
    \/ ExpandHas
    \/ CallCompile

SpecRules == InitRules /\ [][NextRules]_allvars

(***************************************************************************)
(* The command-line tool (cmd/rulescli.go): newRules for the -version      *)
(* flag, then newAST for the rule text.  A rule text is the sequence of    *)
(* its characters.                                                         *)
(***************************************************************************)
MaxAtoms == 2

\* strings.ReplaceAll for a non-empty old: the non-overlapping occurrences
\* of old, found from the left, are replaced by new.
RECURSIVE ReplaceAll(_, _, _)
ReplaceAll(s, old, new) ==
    IF Len(s) < Len(old) THEN s
    ELSE IF SubSeq(s, 1, Len(old)) = old
         THEN new \o ReplaceAll(SubSeq(s, Len(old) + 1, Len(s)), old, new)
         ELSE <<Head(s)>> \o ReplaceAll(Tail(s), old, new)

\* "request.params", "['", "." and "']"
RequestParams == <<114, 101, 113, 117, 101, 115, 116, 46,
                   112, 97, 114, 97, 109, 115>>
OpenIndex     == <<91, 39>>
CloseIndex    == <<39, 93>>
DotText       == <<46>>

\* The text newAST hands to Compile.
ToDotNotation(e) ==
    IF Contains(e, RequestParams)
    THEN ReplaceAll(ReplaceAll(e, OpenIndex, DotText), CloseIndex, <<>>)
    ELSE e

\* newRules: VNext for "VNext", VCurrent for every other flag value.
newRules(v) ==
    NewRules(<<IF v = "VNext" THEN VNext ELSE VCurrent>>)

\* Pieces of rule texts: request.params['d'], request.params.d,
\* request.headers['u'], request.method and the string literal "['d']".
RequestHeaders == <<114, 101, 113, 117, 101, 115, 116, 46,
                    104, 101, 97, 100, 101, 114, 115>>
RequestMethod  == <<114, 101, 113, 117, 101, 115, 116, 46,
                    109, 101, 116, 104, 111, 100>>
IndexText(k)   == OpenIndex \o k \o CloseIndex
ParamsIndexed  == RequestParams \o IndexText(<<100>>)
ParamsSelected == RequestParams \o DotText \o <<100>>
HeadersIndexed == RequestHeaders \o IndexText(<<117>>)
BracketLiteral == <<34>> \o IndexText(<<100>>) \o <<34>>
Atoms == {ParamsIndexed, ParamsSelected, HeadersIndexed, RequestMethod,
          BracketLiteral}

\* " && "
AndText == <<32, 38, 38, 32>>

RECURSIVE Join(_)
Join(as) ==
    IF Len(as) = 1 THEN as[1]
    ELSE as[1] \o AndText \o Join(Tail(as))

AtomLists == UNION { [1 .. n -> Atoms] : n \in 1 .. MaxAtoms }
RuleTexts == { Join(as) : as \in AtomLists }
VersionFlags == {"VCurrent", "VNext", "V3"}

InitCli ==
    /\ ver \in VersionFlags
    /\ expr \in RuleTexts
    /\ engine \in EngineOutcomes
    /\ opts = <<>> /\ rules = NoRules /\ compiled = NotCompiled
    /\ macroArg = NilRef /\ expansion = NoExpansion /\ sent = NotSent
    /\ AttrIdle /\ SuiteIdle /\ FuncsIdle

\* main: r := newRules(opts.version)
CallNewRulesCli ==
    /\ rules = NoRules
    /\ rules' = newRules(ver)
    /\ UNCHANGED <<opts, engine, compiled, macroArg, expansion>>
    /\ UNCHANGED <<ver, expr, sent>>
    /\ UNCHANGED <<vars_attr, vars_suite, vars_funcs>>

\* main: r.newAST(opts.expr)
CallNewAST ==
    /\ rules # NoRules
    /\ rules.rules.env # NilRef
    /\ ~sent.called
    /\ sent' = [called |-> TRUE, text |-> ToDotNotation(expr)]
    /\ compiled' = Compile(engine)
    /\ UNCHANGED <<opts, rules, engine, macroArg, expansion, ver, expr>>
    /\ UNCHANGED <<vars_attr, vars_suite, vars_funcs>>

NextCli ==
    \/ CallNewRulesCli
    \/ CallNewAST

SpecCli == InitCli /\ [][NextCli]_allvars

(***************************************************************************)
(* The function library.  A string is the sequence of its code points; the *)
(* bytes of a string are its UTF-8 encoding.  A call returns a value, a    *)
(* typed error value, or panics.                                           *)
(***************************************************************************)
MaxLen   == 3
MaxBytes == 3
MaxB64   == 5
MaxUrl   == 6
MaxRunes == 2

MaxASCII == 127

Value(v)   == [kind |-> "value", val |-> v, err |-> NoFnError]
NewErr(e)  == [kind |-> "error", val |-> <<>>, err |-> e]
Panic(msg) == [kind |-> "panic", val |-> <<>>,
               err |-> [msg |-> msg, at |-> 0]]

\* The number of bytes of a code point in UTF-8.
Utf8Len(r) ==
    IF r < 128 THEN 1 ELSE IF r < 2048 THEN 2 ELSE IF r < 65536 THEN 3 ELSE 4

\* The UTF-8 bytes of a code point.
Utf8(r) ==
    IF r < 128 THEN <<r>>
    ELSE IF r < 2048 THEN <<192 + (r \div 64), 128 + (r % 64)>>
    ELSE IF r < 65536
         THEN <<224 + (r \div 4096), 128 + ((r \div 64) % 64),
                128 + (r % 64)>>
         ELSE <<240 + (r \div 262144), 128 + ((r \div 4096) % 64),
                128 + ((r \div 64) % 64), 128 + (r % 64)>>

\* []byte(str)
RECURSIVE StringBytes(_)
StringBytes(str) ==
    IF str = <<>> THEN <<>> ELSE Utf8(Head(str)) \o StringBytes(Tail(str))

\* The byte offset range str yields with the k-th code point.
RECURSIVE ByteOffset(_, _)
ByteOffset(str, k) ==
    IF k = 1 THEN 0 ELSE ByteOffset(str, k - 1) + Utf8Len(str[k - 1])

\* unicode.ToLower and unicode.ToUpper on the ASCII range.
UnicodeToLower(r) == IF r \in 65 .. 90 THEN r + 32 ELSE r
UnicodeToUpper(r) == IF r \in 97 .. 122 THEN r - 32 ELSE r

\* The loop of lowerASCII from the k-th code point on: i is the byte offset
\* of the code point in str and indexes the code points in runes.
RECURSIVE LowerLoop(_, _, _)
LowerLoop(str, runes, k) ==
    IF k > Len(str) THEN Value(runes)
    ELSE LET i == ByteOffset(str, k)
             r == str[k]
         IN  IF r <= MaxASCII
             THEN IF i >= Len(runes)
                  THEN Panic("index out of range")
                  ELSE LowerLoop(str,
                                 [runes EXCEPT ![i + 1] = UnicodeToLower(r)],
                                 k + 1)
             ELSE LowerLoop(str, runes, k + 1)

lowerASCII(str) == LowerLoop(str, str, 1)

\* The loop of upperASCII: i is the index of the code point in runes.
RECURSIVE UpperLoop(_, _)
UpperLoop(runes, k) ==
    IF k > Len(runes) THEN Value(runes)
    ELSE LET r == runes[k]
         IN  IF r <= MaxASCII
             THEN UpperLoop([runes EXCEPT ![k] = UnicodeToUpper(r)], k + 1)
             ELSE UpperLoop(runes, k + 1)

upperASCII(str) == UpperLoop(str, 1)

(***************************************************************************)
(* encoding/base64 with the standard alphabet: StdEncoding pads with '='   *)
(* and RawStdEncoding has no padding; neither is strict.  Offsets count    *)
(* bytes from 0, as CorruptInputError does.                                *)
(***************************************************************************)
StdEncoding    == [pad |-> TRUE]
RawStdEncoding == [pad |-> FALSE]

PadChar == 61
NoB64Error == [kind |-> "nil", at |-> 0]
CorruptInputError(n) == [kind |-> "CorruptInputError", at |-> n]

\* enc.decodeMap: 255 for a byte outside the alphabet.
DecodeMap(c) ==
    IF c \in 65 .. 90 THEN c - 65
    ELSE IF c \in 97 .. 122 THEN c - 71
    ELSE IF c \in 48 .. 57 THEN c + 4
    ELSE IF c = 43 THEN 62
    ELSE IF c = 47 THEN 63
    ELSE 255

\* The alphabet character of a 6-bit value.
EncodeMap(v) ==
    IF v < 26 THEN 65 + v
    ELSE IF v < 52 THEN 71 + v
    ELSE IF v < 62 THEN v - 4
    ELSE IF v = 62 THEN 43
    ELSE 47

\* enc.EncodeToString
RECURSIVE EncodeToString(_, _)
EncodeToString(enc, b) ==
    IF b = <<>> THEN <<>>
    ELSE IF Len(b) = 1
    THEN <<EncodeMap(b[1] \div 4), EncodeMap((b[1] % 4) * 16)>> \o
         (IF enc.pad THEN <<PadChar, PadChar>> ELSE <<>>)
    ELSE IF Len(b) = 2
    THEN <<EncodeMap(b[1] \div 4),
           EncodeMap((b[1] % 4) * 16 + (b[2] \div 16)),
           EncodeMap((b[2] % 16) * 4)>> \o
         (IF enc.pad THEN <<PadChar>> ELSE <<>>)
    ELSE <<EncodeMap(b[1] \div 4),
           EncodeMap((b[1] % 4) * 16 + (b[2] \div 16)),
           EncodeMap((b[2] % 16) * 4 + (b[3] \div 64)),
           EncodeMap(b[3] % 64)>> \o
         EncodeToString(enc, SubSeq(b, 4, Len(b)))

\* The position after the newlines that start at si.
RECURSIVE SkipNewlines(_, _)
SkipNewlines(src, si) ==
    IF si < Len(src) /\ src[si + 1] \in {10, 13}
    THEN SkipNewlines(src, si + 1)
    ELSE si

\* The end of decodeQuantum: dlen - 1 bytes of the 24 bits collected.
Quantum(dbuf, dlen, si, err) ==
    LET val == dbuf[1] * 262144 + dbuf[2] * 4096 + dbuf[3] * 64 + dbuf[4]
        out == <<val \div 65536, (val \div 256) % 256, val % 256>>
    IN  [si |-> si, out |-> SubSeq(out, 1, dlen - 1), err |-> err]

Corrupt(si, n) == [si |-> si, out |-> <<>>, err |-> CorruptInputError(n)]

\* decodeQuantum from its j-th iteration, with si bytes of src consumed.
RECURSIVE decodeQuantum(_, _, _, _, _)
decodeQuantum(enc, src, si, j, dbuf) ==
    IF j = 4 THEN Quantum(dbuf, 4, si, NoB64Error)
    ELSE IF si = Len(src)
    THEN IF j = 0 THEN [si |-> si, out |-> <<>>, err |-> NoB64Error]
         ELSE IF j = 1 \/ enc.pad THEN Corrupt(si, si - j)
         ELSE Quantum(dbuf, j, si, NoB64Error)
    ELSE LET in  == src[si + 1]
             si1 == si + 1
             out == DecodeMap(in)
         IN  IF out # 255
             THEN decodeQuantum(enc, src, si1, j + 1,
                                [dbuf EXCEPT ![j + 1] = out])
             ELSE IF in \in {10, 13}
             THEN decodeQuantum(enc, src, si1, j, dbuf)
             ELSE IF ~enc.pad \/ in # PadChar
             THEN Corrupt(si1, si1 - 1)
             ELSE IF j \in {0, 1}
             THEN Corrupt(si1, si1 - 1)
             ELSE IF j = 2
             THEN LET si2 == SkipNewlines(src, si1)
                  IN  IF si2 = Len(src)
                      THEN Corrupt(si2, Len(src))
                      ELSE IF src[si2 + 1] # PadChar
                      THEN Corrupt(si2, si2 - 1)
                      ELSE LET si3 == SkipNewlines(src, si2 + 1)
                           IN  Quantum(dbuf, j, si3,
                                       IF si3 < Len(src)
                                       THEN CorruptInputError(si3)
                                       ELSE NoB64Error)
             ELSE LET si3 == SkipNewlines(src, si1)
                  IN  Quantum(dbuf, j, si3,
                              IF si3 < Len(src)
                              THEN CorruptInputError(si3)
                              ELSE NoB64Error)

\* enc.Decode: quantum after quantum until the input ends or one fails.
RECURSIVE DecodeLoop(_, _, _, _)
DecodeLoop(enc, src, si, dst) ==
    IF si >= Len(src) THEN [b |-> dst, err |-> NoB64Error]
    ELSE LET q == decodeQuantum(enc, src, si, 0, <<0, 0, 0, 0>>)
         IN  IF q.err # NoB64Error
             THEN [b |-> dst \o q.out, err |-> q.err]
             ELSE DecodeLoop(enc, src, q.si, dst \o q.out)

DecodeString(enc, s) == DecodeLoop(enc, StringBytes(s), 0, <<>>)

\* err.Error() of a decoding error.
ErrorString(e) == [msg |-> "illegal base64 data at input byte %d", at |-> e.at]

\* base64DecodeString reporting the error of the first attempt when both
\* attempts fail.
base64DecodeStringFirstError(str) ==
    LET std == DecodeString(StdEncoding, str)
        raw == DecodeString(RawStdEncoding, str)
    IN  IF std.err = NoB64Error THEN Value(std.b)
        ELSE IF std.err.kind # "CorruptInputError"
             THEN NewErr(ErrorString(std.err))
        ELSE IF raw.err # NoB64Error THEN NewErr(ErrorString(std.err))
        ELSE Value(raw.b)

\* base64DecodeString without the second attempt.
base64DecodeStringNoRetry(str) ==
    LET std == DecodeString(StdEncoding, str)
    IN  IF std.err = NoB64Error THEN Value(std.b)
        ELSE NewErr(ErrorString(std.err))

base64DecodeString(str) ==
    LET std == DecodeString(StdEncoding, str)
        raw == DecodeString(RawStdEncoding, str)
    IN  IF std.err = NoB64Error THEN Value(std.b)
        ELSE IF std.err.kind # "CorruptInputError"
             THEN NewErr(ErrorString(std.err))
        ELSE IF raw.err # NoB64Error THEN NewErr(ErrorString(raw.err))
        ELSE Value(raw.b)

(***************************************************************************)
(* net/url QueryUnescape and the two URL decoders, on the bytes of the     *)
(* string.                                                                 *)
(***************************************************************************)
Percent == 37
Plus    == 43
Space   == 32

IsHex(c) == c \in 48 .. 57 \/ c \in 65 .. 70 \/ c \in 97 .. 102
Unhex(c) ==
    IF c \in 48 .. 57 THEN c - 48
    ELSE IF c \in 97 .. 102 THEN c - 87
    ELSE c - 55

NoUrlError == [kind |-> "nil", at |-> 0]
EscapeError(i) == [kind |-> "EscapeError", at |-> i]

\* The first pass of unescape: the offset of the first '%' that does not
\* start a well-formed escape, or -1.
RECURSIVE FirstBadEscape(_, _)
FirstBadEscape(s, i) ==
    IF i >= Len(s) THEN -1
    ELSE IF s[i + 1] = Percent
    THEN IF i + 2 >= Len(s) \/ ~IsHex(s[i + 2]) \/ ~IsHex(s[i + 3])
         THEN i
         ELSE FirstBadEscape(s, i + 3)
    ELSE FirstBadEscape(s, i + 1)

\* The second pass of unescape; plus tells whether '+' stands for a space.
RECURSIVE UnescapeLoop(_, _, _)
UnescapeLoop(s, i, plus) ==
    IF i >= Len(s) THEN <<>>
    ELSE IF s[i + 1] = Percent
    THEN <<Unhex(s[i + 2]) * 16 + Unhex(s[i + 3])>> \o
         UnescapeLoop(s, i + 3, plus)
    ELSE IF s[i + 1] = Plus
    THEN <<IF plus THEN Space ELSE Plus>> \o UnescapeLoop(s, i + 1, plus)
    ELSE <<s[i + 1]>> \o UnescapeLoop(s, i + 1, plus)

\* url.PathUnescape: the same decoding with '+' kept.
PathUnescape(s) ==
    LET bad == FirstBadEscape(s, 0)
    IN  IF bad >= 0 THEN [res |-> <<>>, err |-> EscapeError(bad)]
        ELSE [res |-> UnescapeLoop(s, 0, FALSE), err |-> NoUrlError]

\* url.QueryUnescape
QueryUnescape(s) ==
    LET bad == FirstBadEscape(s, 0)
    IN  IF bad >= 0 THEN [res |-> <<>>, err |-> EscapeError(bad)]
        ELSE [res |-> UnescapeLoop(s, 0, TRUE), err |-> NoUrlError]

UrlErrorString(e) == [msg |-> "invalid URL escape %q", at |-> e.at]

urlDecodeString(str) ==
    LET r == QueryUnescape(StringBytes(str))
    IN  IF r.err # NoUrlError THEN NewErr(UrlErrorString(r.err))
        ELSE Value(r.res)

\* utf8.ValidRune
ValidRune(v) == (0 <= v /\ v < 55296) \/ (57343 < v /\ v <= 1114111)

\* strconv.Unquote of "\u" followed by four bytes, in double quotes: the
\* code point when the four are hex digits that name a valid rune.
UnquoteU(four) ==
    LET hex == \A j \in 1 .. 4 : IsHex(four[j])
        v   == Unhex(four[1]) * 4096 + Unhex(four[2]) * 256 +
               Unhex(four[3]) * 16 + Unhex(four[4])
    IN  IF hex /\ ValidRune(v) THEN [ok |-> TRUE, r |-> v]
        ELSE [ok |-> FALSE, r |-> 0]

InvalidEscapeSequence == [msg |-> "invalid URL escape sequence", at |-> 0]

\* The scan that drops the three characters of a '%XY' it cannot decode.
RECURSIVE UniLoopDrop(_, _, _)
UniLoopDrop(str, idx, sb) ==
    IF idx >= Len(str) THEN Value(sb)
    ELSE LET c == str[idx + 1]
             u == IF idx + 5 < Len(str)
                  THEN UnquoteU(SubSeq(str, idx + 3, idx + 6))
                  ELSE [ok |-> FALSE, r |-> 0]
         IN  IF c = Percent
             THEN IF idx + 1 >= Len(str) THEN NewErr(InvalidEscapeSequence)
                  ELSE IF str[idx + 2] \in {117, 85} /\ idx + 5 >= Len(str)
                  THEN NewErr(InvalidEscapeSequence)
                  ELSE IF str[idx + 2] \in {117, 85} /\ u.ok
                  THEN UniLoopDrop(str, idx + 6, sb \o Utf8(u.r))
                  ELSE IF idx + 2 >= Len(str)
                  THEN NewErr(InvalidEscapeSequence)
                  ELSE LET q == QueryUnescape(SubSeq(str, idx + 1, idx + 3))
                       IN  UniLoopDrop(str, idx + 3, sb \o q.res)
             ELSE IF c = Plus
             THEN UniLoopDrop(str, idx + 1, sb \o <<Space>>)
             ELSE UniLoopDrop(str, idx + 1, sb \o <<c>>)

\* The scan that accepts a '%' with one character after it.
RECURSIVE UniLoopShort(_, _, _)
UniLoopShort(str, idx, sb) ==
    IF idx >= Len(str) THEN Value(sb)
    ELSE LET c == str[idx + 1]
             u == IF idx + 5 < Len(str)
                  THEN UnquoteU(SubSeq(str, idx + 3, idx + 6))
                  ELSE [ok |-> FALSE, r |-> 0]
         IN  IF c = Percent
             THEN IF idx + 1 >= Len(str) THEN NewErr(InvalidEscapeSequence)
                  ELSE IF str[idx + 2] \in {117, 85} /\ idx + 5 >= Len(str)
                  THEN NewErr(InvalidEscapeSequence)
                  ELSE IF str[idx + 2] \in {117, 85} /\ u.ok
                  THEN UniLoopShort(str, idx + 6, sb \o Utf8(u.r))
                  ELSE IF idx + 2 >= Len(str)
                  THEN UniLoopShort(str, idx + 1, sb \o <<c>>)
                  ELSE LET q == QueryUnescape(SubSeq(str, idx + 1, idx + 3))
                       IN  IF q.err # NoUrlError
                           THEN UniLoopShort(str, idx + 1, sb \o <<c>>)
                           ELSE UniLoopShort(str, idx + 3, sb \o q.res)
             ELSE IF c = Plus
             THEN UniLoopShort(str, idx + 1, sb \o <<Space>>)
             ELSE UniLoopShort(str, idx + 1, sb \o <<c>>)

\* The scan of urlDecodeUniString from byte offset idx, with sb built so
\* far.  A '%u' sequence Unquote rejects falls through to the '%XY' case.
RECURSIVE UniLoop(_, _, _)
UniLoop(str, idx, sb) ==
    IF idx >= Len(str) THEN Value(sb)
    ELSE LET c == str[idx + 1]
             u == IF idx + 5 < Len(str)
                  THEN UnquoteU(SubSeq(str, idx + 3, idx + 6))
                  ELSE [ok |-> FALSE, r |-> 0]
         IN  IF c = Percent
             THEN IF idx + 1 >= Len(str) THEN NewErr(InvalidEscapeSequence)
                  ELSE IF str[idx + 2] \in {117, 85} /\ idx + 5 >= Len(str)
                  THEN NewErr(InvalidEscapeSequence)
                  ELSE IF str[idx + 2] \in {117, 85} /\ u.ok
                  THEN UniLoop(str, idx + 6, sb \o Utf8(u.r))
                  ELSE IF idx + 2 >= Len(str)
                  THEN NewErr(InvalidEscapeSequence)
                  ELSE LET q == QueryUnescape(SubSeq(str, idx + 1, idx + 3))
                       IN  IF q.err # NoUrlError
                           THEN UniLoop(str, idx + 1, sb \o <<c>>)
                           ELSE UniLoop(str, idx + 3, sb \o q.res)
             ELSE IF c = Plus
             THEN UniLoop(str, idx + 1, sb \o <<Space>>)
             ELSE UniLoop(str, idx + 1, sb \o <<c>>)

urlDecodeUniString(str) == UniLoop(StringBytes(str), 0, <<>>)

(***************************************************************************)
(* utf8ToUnicode: the string is ranged over by code point.                 *)
(***************************************************************************)
kHexChar == <<48, 49, 50, 51, 52, 53, 54, 55, 56, 57, 97, 98, 99, 100, 101,
              102>>

\* sb.WriteRune: an invalid rune is written as U+FFFD.
WriteRune(r) == IF ValidRune(r) THEN r ELSE 65533

\* The indexes writeHexStr takes into kHexChar, in the order it writes.
HexIndexes(v) ==
    (IF v > 1048575 THEN <<v \div 1048576>> ELSE <<>>) \o
    (IF v > 65535 THEN <<(v \div 65536) % 16>> ELSE <<>>) \o
    <<(v \div 4096) % 16, (v \div 256) % 16, (v \div 16) % 16, v % 16>>

\* writeHexStr writing the low four digits only.
writeHexStrLowFour(v) ==
    LET ix == <<(v \div 4096) % 16, (v \div 256) % 16, (v \div 16) % 16,
                v % 16>>
    IN  [ok |-> TRUE,
         s  |-> <<Percent, 117>> \o [j \in 1 .. 4 |-> kHexChar[ix[j] + 1]]]

\* writeHexStr: what it appends, unless an index leaves the table.
writeHexStr(v) ==
    LET ix == HexIndexes(v)
    IN  IF \E j \in 1 .. Len(ix) : ix[j] \notin 0 .. 15
        THEN [ok |-> FALSE, s |-> <<>>]
        ELSE [ok |-> TRUE,
              s  |-> <<Percent, 117>> \o
                     [j \in 1 .. Len(ix) |-> kHexChar[ix[j] + 1]]]

\* The loop of utf8ToUnicodeString from the k-th code point on.
RECURSIVE Utf8ToUnicodeLoop(_, _, _)
Utf8ToUnicodeLoop(str, k, sb) ==
    IF k > Len(str) THEN Value(sb)
    ELSE LET r == str[k]
             h == writeHexStr(r)
             escape == IF r < 128 THEN FALSE
                       ELSE IF r < 2048 THEN TRUE
                       ELSE IF r < 65536 THEN ~(r >= 55296 /\ r <= 57343)
                       ELSE r < 1114112
         IN  IF ~escape
             THEN Utf8ToUnicodeLoop(str, k + 1, sb \o <<WriteRune(r)>>)
             ELSE IF ~h.ok THEN Panic("index out of range")
             ELSE Utf8ToUnicodeLoop(str, k + 1, sb \o h.s)

utf8ToUnicodeString(str) == Utf8ToUnicodeLoop(str, 1, <<>>)

\* Sequences over a set, up to a length.
SeqsUpTo(S, n) == UNION { [1 .. m -> S] : m \in 0 .. n }

\* Code points of one to four UTF-8 bytes, with the ends of the ASCII range.
CodePoints == {48, 65, 97, 127, 128, 8364, 128512}
Strings    == SeqsUpTo(CodePoints, MaxLen)

\* Byte strings and their two encodings.
ByteValues  == {0, 97, 98, 99, 251, 255}
ByteStrings == SeqsUpTo(ByteValues, MaxBytes)
Encodings ==
    { [b |-> b, s |-> EncodeToString(enc, b)] :
          b \in ByteStrings, enc \in {StdEncoding, RawStdEncoding} }

\* Strings around the base64 alphabet: a letter, padding, a newline and a
\* character outside the alphabet.
B64Chars   == {65, 61, 10, 45}
B64Strings == SeqsUpTo(B64Chars, MaxB64)

\* Strings around the URL escapes: '%', 'u', '+' and the hex digit '4',
\* and the escapes and queries of the repository's tests.
UrlChars   == {37, 117, 43, 52}
UrlStrings == SeqsUpTo(UrlChars, MaxUrl)
UrlDecodeQuery ==
    <<118, 97, 108, 117, 101, 61, 85, 114, 108, 43, 69, 110, 99, 111, 100,
      101, 100, 37, 50, 49>>
UrlDecodeUniQuery ==
    <<118, 97, 108, 117, 101, 61, 85, 110, 105, 99, 111, 100, 101, 37, 50,
      48, 85, 114, 108, 37, 117, 48, 48, 50, 48, 69, 110, 99, 111, 100, 101,
      100, 37, 117, 48, 48, 50, 49>>
UrlSamples ==
    {UrlDecodeQuery, UrlDecodeUniQuery,
     <<37, 85, 48, 48, 69, 57>>, <<37, 117, 48, 48, 101, 57>>,
     <<37, 117, 100, 56, 48, 48>>, <<37, 117, 68, 70, 70, 70>>,
     <<37, 117, 122, 122, 122, 122>>, <<37, 52, 49>>, <<37, 52, 103>>,
     <<37, 117, 50, 48, 65, 67, 37>>}

\* Code points at the ends of the ranges utf8ToUnicode tells apart.
UnicodePoints ==
    {97, 127, 128, 256, 2047, 2048, 55295, 57344, 65535, 65536, 1048575,
     1048576, 1114111}
UnicodeStrings == SeqsUpTo(UnicodePoints, MaxRunes)

FunctionArgs ==
    Strings \cup { e.s : e \in Encodings } \cup B64Strings \cup
    UrlStrings \cup UrlSamples \cup UnicodeStrings

InitFuncs ==
    /\ arg \in FunctionArgs
    /\ fn = "none"
    /\ ret = NoReturn
    /\ AttrIdle /\ SuiteIdle /\ RulesIdle

\* s.lower()
CallLower ==
    /\ fn = "none"
    /\ fn' = "lower"
    /\ ret' = lowerASCII(arg)
    /\ UNCHANGED arg
    /\ UNCHANGED <<vars_attr, vars_suite, vars_rules>>

\* s.upper()
CallUpper ==
    /\ fn = "none"
    /\ fn' = "upper"
    /\ ret' = upperASCII(arg)
    /\ UNCHANGED arg
    /\ UNCHANGED <<vars_attr, vars_suite, vars_rules>>

\* s.base64Decode()
CallBase64Decode ==
    /\ fn = "none"
    /\ fn' = "base64Decode"
    /\ ret' = base64DecodeString(arg)
    /\ UNCHANGED arg
    /\ UNCHANGED <<vars_attr, vars_suite, vars_rules>>

\* s.urlDecode()
CallUrlDecode ==
    /\ fn = "none"
    /\ fn' = "urlDecode"
    /\ ret' = urlDecodeString(arg)
    /\ UNCHANGED arg
    /\ UNCHANGED <<vars_attr, vars_suite, vars_rules>>

\* s.urlDecodeUni()
CallUrlDecodeUni ==
    /\ fn = "none"
    /\ fn' = "urlDecodeUni"
    /\ ret' = urlDecodeUniString(arg)
    /\ UNCHANGED arg
    /\ UNCHANGED <<vars_attr, vars_suite, vars_rules>>

\* s.utf8ToUnicode()
CallUtf8ToUnicode ==
    /\ fn = "none"
    /\ fn' = "utf8ToUnicode"
    /\ ret' = utf8ToUnicodeString(arg)
    /\ UNCHANGED arg
    /\ UNCHANGED <<vars_attr, vars_suite, vars_rules>>

NextFuncs ==
    \/ CallLower
    \/ CallUpper
    \/ CallBase64Decode
    \/ CallUrlDecode
    \/ CallUrlDecodeUni
    \/ CallUtf8ToUnicode

SpecFuncs == InitFuncs /\ [][NextFuncs]_allvars

(***************************************************************************)
(* inIpRange: net.ParseIP, net.ParseCIDR and IPNet.Contains on dotted      *)
(* IPv4 text.                                                              *)
(***************************************************************************)
Dot   == 46
Slash == 47

IsDigit(c) == c \in 48 .. 57

\* The scan of the IPv4 parser from offset i: fields are the octets closed
\* so far, val and digLen the value and length of the open one.
RECURSIVE ParseIPv4Loop(_, _, _, _, _)
ParseIPv4Loop(s, i, fields, val, digLen) ==
    IF i >= Len(s)
    THEN IF Len(fields) < 3 THEN [ok |-> FALSE, ip |-> <<>>]
         ELSE [ok |-> TRUE, ip |-> Append(fields, val)]
    ELSE LET c == s[i + 1]
         IN  IF IsDigit(c)
             THEN IF digLen = 1 /\ val = 0 THEN [ok |-> FALSE, ip |-> <<>>]
                  ELSE IF val * 10 + (c - 48) > 255
                  THEN [ok |-> FALSE, ip |-> <<>>]
                  ELSE ParseIPv4Loop(s, i + 1, fields, val * 10 + (c - 48),
                                     digLen + 1)
             ELSE IF c = Dot
             THEN IF i = 0 \/ i = Len(s) - 1 \/ s[i] = Dot
                  THEN [ok |-> FALSE, ip |-> <<>>]
                  ELSE IF Len(fields) = 3 THEN [ok |-> FALSE, ip |-> <<>>]
                  ELSE ParseIPv4Loop(s, i + 1, Append(fields, val), 0, 0)
             ELSE [ok |-> FALSE, ip |-> <<>>]

\* net.ParseIP on text without ':' : dotted IPv4 or nothing.
ParseIP(s) ==
    IF \E i \in 1 .. Len(s) : s[i] = Dot
    THEN ParseIPv4Loop(s, 0, <<>>, 0, 0)
    ELSE [ok |-> FALSE, ip |-> <<>>]

\* dtoi: the number the leading digits of s spell, and how many they are.
RECURSIVE Dtoi(_, _, _)
Dtoi(s, i, n) ==
    IF i < Len(s) /\ IsDigit(s[i + 1])
    THEN IF n * 10 + (s[i + 1] - 48) >= 16777215
         THEN [n |-> 16777215, i |-> i, ok |-> FALSE]
         ELSE Dtoi(s, i + 1, n * 10 + (s[i + 1] - 48))
    ELSE IF i = 0 THEN [n |-> 0, i |-> 0, ok |-> FALSE]
    ELSE [n |-> n, i |-> i, ok |-> TRUE]

\* The offset of the first '/' of s, or -1.
RECURSIVE IndexSlash(_, _)
IndexSlash(s, i) ==
    IF i >= Len(s) THEN -1
    ELSE IF s[i + 1] = Slash THEN i ELSE IndexSlash(s, i + 1)

\* The bits of the j-th byte of a mask of n ones.
MaskBits(n, j) ==
    IF n >= 8 * j THEN 8 ELSE IF n <= 8 * (j - 1) THEN 0 ELSE n - 8 * (j - 1)

\* A byte and-ed with a mask byte of the given number of leading ones.
AndMask(b, bits) == b - (b % (2 ^ (8 - bits)))

\* ip.Mask(net.CIDRMask(n, 32))
Mask(ip, n) == [j \in 1 .. 4 |-> AndMask(ip[j], MaskBits(n, j))]

\* net.ParseCIDR: the network, its address masked.
ParseCIDR(s) ==
    LET i    == IndexSlash(s, 0)
        addr == ParseIP(SubSeq(s, 1, i))
        mask == SubSeq(s, i + 2, Len(s))
        d    == Dtoi(mask, 0, 0)
    IN  IF i < 0 THEN [ok |-> FALSE, ip |-> <<>>, n |-> 0]
        ELSE IF ~addr.ok \/ ~d.ok \/ d.i # Len(mask) \/ d.n > 32
        THEN [ok |-> FALSE, ip |-> <<>>, n |-> 0]
        ELSE [ok |-> TRUE, ip |-> Mask(addr.ip, d.n), n |-> d.n]

\* IPNet.Contains: byte by byte under the mask.
Contains4(network, ip) ==
    \A j \in 1 .. 4 :
        AndMask(network.ip[j], MaskBits(network.n, j)) =
            AndMask(ip[j], MaskBits(network.n, j))

InvalidIPAddress == [msg |-> "invalid IP address: %s", at |-> 0]
InvalidIPRange   == [msg |-> "invalid IP range: %s", at |-> 0]

\* The binding answering false for an address that does not parse.
inIpRangeFalseOnBadIP(ip, ipRange) ==
    LET netIP      == ParseIP(ip)
        netIPRange == ParseCIDR(ipRange)
    IN  IF ~netIP.ok THEN Value(FALSE)
        ELSE IF ~netIPRange.ok THEN NewErr(InvalidIPRange)
        ELSE Value(Contains4(netIPRange, netIP.ip))

inIpRange(ip, ipRange) ==
    LET netIP      == ParseIP(ip)
        netIPRange == ParseCIDR(ipRange)
    IN  IF ~netIP.ok THEN NewErr(InvalidIPAddress)
        ELSE IF ~netIPRange.ok THEN NewErr(InvalidIPRange)
        ELSE Value(Contains4(netIPRange, netIP.ip))

\* Decimal text of a number below 1000.
Itoa(n) ==
    IF n < 10 THEN <<48 + n>>
    ELSE IF n < 100 THEN <<48 + (n \div 10), 48 + (n % 10)>>
    ELSE <<48 + (n \div 100), 48 + ((n \div 10) % 10), 48 + (n % 10)>>

\* Addresses a.b.c.d and networks a.b.c.d/n with their text.
Quads == { <<a, b, c, d>> : a \in {10, 192}, b \in {167, 168},
                            c \in {0, 1, 255}, d \in {0, 1} }
PrefixLengths == {0, 8, 15, 16, 17, 24, 31, 32}
DottedQuad(q) ==
    Itoa(q[1]) \o <<Dot>> \o Itoa(q[2]) \o <<Dot>> \o Itoa(q[3]) \o <<Dot>>
        \o Itoa(q[4])
IPTexts   == { [q |-> q, s |-> DottedQuad(q)] : q \in Quads }
CIDRTexts == { [q |-> q, n |-> n,
                s |-> DottedQuad(q) \o <<Slash>> \o Itoa(n)] :
                   q \in Quads, n \in PrefixLengths }

\* Text that is no IP address: 'not-an-ip', '', '192.168.0', '192.168.0.256',
\* '192.168.0.1.1', '192.168..1', '192.168.0.x', '192.168.0.1/16', ' 192.168.0.1', '.168.0.1'.
BadIPTexts ==
    {<<110, 111, 116, 45, 97, 110, 45, 105, 112>>,
     <<>>,
     <<49, 57, 50, 46, 49, 54, 56, 46, 48>>,
     <<49, 57, 50, 46, 49, 54, 56, 46, 48, 46, 50, 53, 54>>,
     <<49, 57, 50, 46, 49, 54, 56, 46, 48, 46, 49, 46, 49>>,
     <<49, 57, 50, 46, 49, 54, 56, 46, 46, 49>>,
     <<49, 57, 50, 46, 49, 54, 56, 46, 48, 46, 120>>,
     <<49, 57, 50, 46, 49, 54, 56, 46, 48, 46, 49, 47, 49, 54>>,
     <<32, 49, 57, 50, 46, 49, 54, 56, 46, 48, 46, 49>>,
     <<46, 49, 54, 56, 46, 48, 46, 49>>}

\* Text that is no network prefix: '192.168.0.0', '192.168.0.0/33', '192.168.0.0/', 'not-a-range',
\* '/16', '192.168.0.0/x', '192.168.0.256/16', '192.168.0.0/16/1', '192.168.0.0/-1', ''.
BadCIDRTexts ==
    {<<49, 57, 50, 46, 49, 54, 56, 46, 48, 46, 48>>,
     <<49, 57, 50, 46, 49, 54, 56, 46, 48, 46, 48, 47, 51, 51>>,
     <<49, 57, 50, 46, 49, 54, 56, 46, 48, 46, 48, 47>>,
     <<110, 111, 116, 45, 97, 45, 114, 97, 110, 103, 101>>,
     <<47, 49, 54>>,
     <<49, 57, 50, 46, 49, 54, 56, 46, 48, 46, 48, 47, 120>>,
     <<49, 57, 50, 46, 49, 54, 56, 46, 48, 46, 50, 53, 54, 47, 49, 54>>,
     <<49, 57, 50, 46, 49, 54, 56, 46, 48, 46, 48, 47, 49, 54, 47, 49>>,
     <<49, 57, 50, 46, 49, 54, 56, 46, 48, 46, 48, 47, 45, 49>>,
     <<>>}

InitIp ==
    /\ arg \in ({ t.s : t \in IPTexts } \cup BadIPTexts) \X
               ({ t.s : t \in CIDRTexts } \cup BadCIDRTexts)
    /\ fn = "none"
    /\ ret = NoReturn
    /\ AttrIdle /\ SuiteIdle /\ RulesIdle

\* inIpRange(ip, ipRange)
CallInIpRange ==
    /\ fn = "none"
    /\ fn' = "inIpRange"
    /\ ret' = inIpRange(arg[1], arg[2])
    /\ UNCHANGED arg
    /\ UNCHANGED <<vars_attr, vars_suite, vars_rules>>

NextIp == CallInIpRange

SpecIp == InitIp /\ [][NextIp]_allvars

(***************************************************************************)
(* Properties of the test harness (specification Spec).                    *)
(***************************************************************************)
Ran == nRuns >= 1

\* The evaluation RunRuleValidation made of the i-th loaded test case.
EvalOf(i) == Eval(prg, ts.Tests[i].When)

Raised(i) == EvalOf(i).err # <<>>

\* C1: after RunRuleValidation, every case whose evaluation raised an error
\* has verdict PASS if it declares a non-empty expected substring that the
\* message contains, FAIL with a description containing both the quoted
\* message and the quoted substring if the declared substring is not
\* contained, and FAIL with the message itself as description if no
\* expected error is declared.
C1_ErrorVerdict ==
    Ran => \A i \in 1..Len(ts.Tests) :
        LET tc == ts.Tests[i]
            e  == EvalOf(i)
            s  == statuses[i]
        IN  Raised(i) =>
              /\ (tc.ExpectError # <<>> /\ Contains(e.err, tc.ExpectError))
                    => s.Pass
              /\ (tc.ExpectError # <<>> /\ ~Contains(e.err, tc.ExpectError))
                    => /\ ~s.Pass
                       /\ Contains(s.Fail, Quote(e.err))
                       /\ Contains(s.Fail, Quote(tc.ExpectError))
              /\ tc.ExpectError = <<>>
                    => /\ ~s.Pass
                       /\ s.Fail = e.err

C1_Witness ==
    /\ Ran
    /\ \E i, j \in 1..Len(ts.Tests) :
          /\ Raised(i) /\ ts.Tests[i].ExpectError # <<>>
          /\ Contains(EvalOf(i).err, ts.Tests[i].ExpectError)
          /\ statuses[i].Pass
          /\ Raised(j) /\ ts.Tests[j].ExpectError # <<>>
          /\ ~Contains(EvalOf(j).err, ts.Tests[j].ExpectError)
          /\ ~statuses[j].Pass

\* C2: after RunRuleValidation, every case whose evaluation succeeded has
\* verdict PASS exactly when the result equals the expected boolean, which
\* is false for a test that writes neither `expect` nor `error`; a FAIL
\* description contains the expected and the actual value.
C2_ResultVerdict ==
    Ran => \A i \in 1..Len(ts.Tests) :
        LET tc == ts.Tests[i]
            d  == doc.tests[i]
            e  == EvalOf(i)
            s  == statuses[i]
            expected == IF d.expect.set THEN d.expect.val ELSE FALSE
        IN  ~Raised(i) =>
              /\ s.Pass <=> (e.out = expected)
              /\ (~d.expect.set /\ ~d.error.set) => (s.Pass <=> ~e.out)
              /\ ~s.Pass => /\ Contains(s.Fail, FmtBool(expected))
                            /\ Contains(s.Fail, FmtBool(e.out))

C2_Witness ==
    /\ Ran
    /\ \E i, j \in 1..Len(ts.Tests) :
          /\ ~Raised(i) /\ ~doc.tests[i].expect.set /\ ~doc.tests[i].error.set
          /\ ~EvalOf(i).out /\ statuses[i].Pass
          /\ ~Raised(j) /\ doc.tests[j].expect = Written(FALSE)
          /\ EvalOf(j).out /\ ~statuses[j].Pass

\* C3: RunRuleValidation returns one status per test case, the i-th status
\* carrying the i-th case's name, whatever the verdicts of the cases
\* before it.
C3_OneStatusPerCase ==
    Ran => /\ Len(statuses) = Len(ts.Tests)
           /\ \A i \in 1..Len(statuses) : statuses[i].Name = ts.Tests[i].Name

C3_Witness ==
    /\ Ran
    /\ Len(ts.Tests) = 2
    /\ ts.Tests[1].Name # ts.Tests[2].Name
    /\ Raised(1) /\ ~statuses[1].Pass
    /\ Len(statuses) = 2 /\ statuses[2].Pass

\* The orders in which n cases can be handed to an evaluator.
Orders(n) == { f \in [1..n -> 1..n] : \A a, b \in 1..n : f[a] = f[b] => a = b }

C5_FailIffNotPass ==
    /\ \A i \in 1..Len(statuses) :
          /\ statuses[i].Pass => statuses[i].Fail = <<>>
          /\ ~statuses[i].Pass => statuses[i].Fail # <<>>
    /\ report # <<>> =>
          \A i \in 1..Len(statuses) :
              (report[i] = "FAIL") <=> ~statuses[i].Pass

C5_Witness ==
    /\ report # <<>>
    /\ \E i, j \in 1..Len(statuses) :
          /\ statuses[i].Pass /\ report[i] = "PASS"
          /\ ~statuses[j].Pass /\ report[j] = "FAIL"
          /\ Raised(j) /\ ts.Tests[j].ExpectError = <<>>

\* Some test of the document writes `expect: true` and a non-empty `error`.
DeclaresTrueAndError ==
    /\ doc.ok
    /\ \E i \in 1..Len(doc.tests) :
          /\ doc.tests[i].expect = Written(TRUE)
          /\ doc.tests[i].error.set /\ doc.tests[i].error.val # <<>>

\* C6: once TestSuiteFromYAML has returned for a document in which some
\* test writes `expect: true` and a non-empty `error`, it has returned an
\* error and no suite, and no case has been or is ever evaluated.
C6_RejectTrueAndError ==
    (DeclaresTrueAndError /\ phase # "start") =>
        /\ phase = "rejected"
        /\ ts = NilSuite
        /\ loadErr # NoErr
        /\ nEval = 0 /\ nRuns = 0

C6_Witness ==
    /\ phase = "rejected"
    /\ doc.ok /\ Len(doc.tests) = 2
    /\ ~(doc.tests[1].expect.set /\ doc.tests[1].error.set)
    /\ doc.tests[2].expect = Written(TRUE)
    /\ doc.tests[2].error.set /\ doc.tests[2].error.val # <<>>
    /\ loadErr.name = doc.tests[2].name

\* Some test of the document writes both `expect` and a non-empty `error`.
DeclaresExpectAndError ==
    /\ doc.ok
    /\ \E i \in 1..Len(doc.tests) :
          /\ doc.tests[i].expect.set
          /\ doc.tests[i].error.set /\ doc.tests[i].error.val # <<>>

\* C7: once TestSuiteFromYAML has returned for a document in which some
\* test writes both `expect` (true or false) and `error`, it has returned
\* an error and no suite.
C7_RejectExpectAndError ==
    (DeclaresExpectAndError /\ phase # "start") =>
        /\ phase = "rejected"
        /\ ts = NilSuite
        /\ loadErr # NoErr

(***************************************************************************)
(* Properties of normalization (specification SpecVars).                   *)
(***************************************************************************)
Normalized == op \in {"SafeVariables", "VariablesFromYAML", "SafeTestCase"}

NoNilRef(v) ==
    /\ v # NilRef
    /\ v.Request # NilRef
    /\ ~v.Request.Headers.nil
    /\ v.Origin # NilRef
    /\ v.Token # NilRef
    /\ v.Token.RecaptchaExemption # NilRef
    /\ v.Token.RecaptchaAction # NilRef
    /\ v.Token.RecaptchaSession # NilRef

\* The sub-records present in `in` have the same field values in `out`.
\* Of the header map, which normalization lowers, every entry is still
\* there, with its value unless its key is the lower-case form of another
\* input key.
KeepsFields(in, out) ==
    /\ in.Request # NilRef =>
          /\ out.Request.Method = in.Request.Method
          /\ out.Request.Path = in.Request.Path
          /\ out.Request.Query = in.Request.Query
          /\ out.Request.Scheme = in.Request.Scheme
          /\ \A k \in DOMAIN in.Request.Headers.m :
                /\ k \in DOMAIN out.Request.Headers.m
                /\ (\A k2 \in (DOMAIN in.Request.Headers.m) \ {k} :
                       ToLower(k2) # k)
                      => out.Request.Headers.m[k] = in.Request.Headers.m[k]
    /\ in.Origin # NilRef => out.Origin = in.Origin
    /\ in.Token # NilRef =>
          /\ in.Token.RecaptchaExemption # NilRef =>
                out.Token.RecaptchaExemption = in.Token.RecaptchaExemption
          /\ in.Token.RecaptchaAction # NilRef =>
                out.Token.RecaptchaAction = in.Token.RecaptchaAction
          /\ in.Token.RecaptchaSession # NilRef =>
                out.Token.RecaptchaSession = in.Token.RecaptchaSession

\* C8: what SafeVariables, VariablesFromYAML and SafeTestCase hand back,
\* and every test case of a loaded suite, has no nil sub-record, and the
\* sub-records the input had keep their field values.
C8_NoNilSubRecord ==
    /\ Normalized =>
          /\ NoNilRef(vars)
          /\ input # NilRef => KeepsFields(input, vars)
    /\ phase = "loaded" =>
          \A i \in 1..Len(ts.Tests) :
              /\ NoNilRef(ts.Tests[i].When)
              /\ doc.tests[i].when # NilRef =>
                    KeepsFields(doc.tests[i].when, ts.Tests[i].When)

C8_Witness ==
    /\ op = "SafeTestCase"
    /\ input # NilRef
    /\ input.Request # NilRef /\ input.Request.Headers.nil
    /\ input.Origin = NilRef
    /\ input.Token # NilRef
    /\ input.Token.RecaptchaAction # NilRef
    /\ input.Token.RecaptchaSession = NilRef
    /\ vars.Token.RecaptchaSession = ZeroRecaptchaSession
    /\ vars.Origin = ZeroOrigin

\* The header entries of the input, and those after normalization.
InHeaders ==
    IF input \in {NilRef, Malformed} THEN EmptyFcn
    ELSE IF input.Request = NilRef THEN EmptyFcn
    ELSE input.Request.Headers.m

OutHeaders == IF op = "HTTPHeaders" THEN hdrs.m ELSE vars.Request.Headers.m

Lowered == Normalized \/ op = "HTTPHeaders"

\* C9: after SafeVariables or HTTPHeaders the header map has no key with
\* an upper-case letter.
C9_OnlyLowercaseKeys ==
    Lowered => \A k \in DOMAIN OutHeaders : ~HasUpper(k)

\* C10: after SafeVariables or HTTPHeaders, for every input key k the key
\* lowercase(k) is in the map with the input value of an input key whose
\* lower-case form it is, and with the input value of k itself when no
\* other input key has that lower-case form.
C10_LowercaseKeyPresent ==
    Lowered => \A k \in DOMAIN InHeaders :
        LET lk == ToLower(k)
        IN  /\ lk \in DOMAIN OutHeaders
            /\ \E k2 \in DOMAIN InHeaders :
                  /\ ToLower(k2) = lk
                  /\ OutHeaders[lk] = InHeaders[k2]
            /\ (\A k2 \in (DOMAIN InHeaders) \ {k} : ToLower(k2) # lk)
                  => OutHeaders[lk] = InHeaders[k]

C10_Witness ==
    /\ op = "HTTPHeaders"
    /\ DOMAIN InHeaders = {<<65, 98>>, <<97, 66>>}
    /\ InHeaders[<<65, 98>>] = "1" /\ InHeaders[<<97, 66>>] = "2"
    /\ OutHeaders[<<97, 98>>] = "2"

\* C29: after RunRuleValidation, a case that declares a non-empty expected
\* error substring has verdict PASS only if its evaluation raised an error
\* whose message contains the substring; if its evaluation raised no error
\* the verdict is FAIL, whatever the result.
C29_ExpectedErrorNeedsError ==
    Ran => \A i \in 1..Len(ts.Tests) :
        ts.Tests[i].ExpectError # <<>> =>
            /\ statuses[i].Pass =>
                  /\ Raised(i)
                  /\ Contains(EvalOf(i).err, ts.Tests[i].ExpectError)
            /\ ~Raised(i) => ~statuses[i].Pass

(***************************************************************************)
(* Properties of the command-line tool (specification SpecCli).            *)
(***************************************************************************)
\* The piece a rule's piece is meant to become: an index expression on
\* request.params becomes a field selection, every other piece stays.
DotForm(a) == IF a = ParamsIndexed THEN ParamsSelected ELSE a

\* C30: the text newAST hands to Compile differs from the rule text only in
\* the index expressions on request.params, which become field selections;
\* index expressions on other attributes and string literals holding [' or
\* '] arrive unchanged, and a rule text without request.params arrives
\* unmodified.
C30_OnlyParamsIndexConverted ==
    sent.called =>
        /\ \A as \in AtomLists :
               expr = Join(as) =>
                   sent.text = Join([i \in 1 .. Len(as) |-> DotForm(as[i])])
        /\ ~Contains(expr, RequestParams) => sent.text = expr


(***************************************************************************)
(* Properties of name resolution (specification SpecResolve).              *)
(***************************************************************************)
ResolveCalled == resolved.called

\* The names of the enumerated namespace.
Namespace ==
    {"request.method", "request.headers", "request.path", "request.query",
     "request.scheme", "origin.ip", "origin.region_code", "origin.asn",
     "origin.user_ip", "origin.tls_ja3_fingerprint",
     "origin.tls_ja4_fingerprint", "token.recaptcha_exemption.valid",
     "token.recaptcha_action.score", "token.recaptcha_action.captcha_status",
     "token.recaptcha_action.action", "token.recaptcha_action.valid",
     "token.recaptcha_session.score", "token.recaptcha_session.valid"}

\* The sub-record of the input document at a path of keys, when the
\* document has it.
InputHas(path) ==
    /\ input # NilRef
    /\ input[path[1]] # NilRef
    /\ Len(path) = 2 => input[path[1]][path[2]] # NilRef

InputAt(path) ==
    IF Len(path) = 1 THEN input[path[1]] ELSE input[path[1]][path[2]]

\* The value the document gives a field, or the zero value of its type.
InputField(path, field, zero) ==
    IF InputHas(path) THEN InputAt(path)[field] ELSE zero

ExpectedValue(n) ==
    CASE n = "request.method" -> InputField(<<"Request">>, "Method", "")
      [] n = "request.path"   -> InputField(<<"Request">>, "Path", "")
      [] n = "request.query"  -> InputField(<<"Request">>, "Query", "")
      [] n = "request.scheme" -> InputField(<<"Request">>, "Scheme", "")
      [] n = "origin.ip"      -> InputField(<<"Origin">>, "IP", "")
      [] n = "origin.region_code" -> InputField(<<"Origin">>, "RegionCode", "")
      [] n = "origin.asn"     -> InputField(<<"Origin">>, "ASN", 0)
      [] n = "origin.user_ip" -> InputField(<<"Origin">>, "UserIP", "")
      [] n = "origin.tls_ja3_fingerprint" ->
             InputField(<<"Origin">>, "TLSJA3Fingerprint", "")
      [] n = "origin.tls_ja4_fingerprint" ->
             InputField(<<"Origin">>, "TLSJA4Fingerprint", "")
      [] n = "token.recaptcha_exemption.valid" ->
             InputField(<<"Token", "RecaptchaExemption">>, "Valid", FALSE)
      [] n = "token.recaptcha_action.score" ->
             InputField(<<"Token", "RecaptchaAction">>, "Score", 0)
      [] n = "token.recaptcha_action.captcha_status" ->
             InputField(<<"Token", "RecaptchaAction">>, "CaptchaStatus", "")
      [] n = "token.recaptcha_action.action" ->
             InputField(<<"Token", "RecaptchaAction">>, "Action", "")
      [] n = "token.recaptcha_action.valid" ->
             InputField(<<"Token", "RecaptchaAction">>, "Valid", FALSE)
      [] n = "token.recaptcha_session.score" ->
             InputField(<<"Token", "RecaptchaSession">>, "Score", 0)
      [] n = "token.recaptcha_session.valid" ->
             InputField(<<"Token", "RecaptchaSession">>, "Valid", FALSE)

C12_V2VariablesResolve ==
    (ResolveCalled /\ resolved.name \in V2Variables) => resolved.found

(***************************************************************************)
(* Properties of the rules environment (specification SpecRules).          *)
(***************************************************************************)
RulesCalled == rules # NoRules
Compiled    == compiled # NotCompiled
Expanded    == expansion # NoExpansion

\* The version the options ask for.
Requested == IF opts = <<>> THEN 1 ELSE opts[Len(opts)]

\* C13: NewRules builds an environment exactly when the requested version
\* is 1 or 2; no Version option means version 1, of several Version options
\* the last applies, and every other version (0 included) gives the
\* configuration error and no environment.
C13_VersionsOneAndTwo ==
    RulesCalled =>
        /\ rules.rules.version = Requested
        /\ rules.rules.env # NilRef <=> Requested \in {1, 2}
        /\ rules.rules.env # NilRef <=> rules.err = NoError
        /\ Requested \notin {1, 2} =>
              rules.err = UnsupportedVersion(Requested)
        /\ Requested = 1 => rules.rules.env.document = "cloudArmorV1"
        /\ Requested = 2 => rules.rules.env.document = "cloudArmorV2"

C13_Witness ==
    /\ RulesCalled
    /\ opts = <<2, 0>>
    /\ rules.rules.env = NilRef
    /\ rules.err = UnsupportedVersion(0)

\* C14: Compile returns a compiled form exactly when the engine reports no
\* issues and the output type is bool; with issues it returns the engine's
\* diagnostic, with any other output type (dyn included) an error, and in
\* both cases no compiled form.
C14_CompileOnlyBool ==
    Compiled =>
        /\ compiled.ast # NilRef <=> (~engine.iss /\ engine.type = "bool")
        /\ compiled.ast # NilRef <=> compiled.err = ""
        /\ engine.iss => compiled.err = engine.diag
        /\ (~engine.iss /\ engine.type # "bool") =>
              compiled.err = "expression must evaluate to a boolean value"

C14_Witness ==
    /\ Compiled
    /\ engine.type = "dyn"
    /\ compiled.ast = NilRef
    /\ compiled.err = "expression must evaluate to a boolean value"

\* The pairings an operator is declared with in a set of overloads.
Pairings(decls, name) ==
    { o.args : o \in { d \in decls : d.fn = name } }
Ids(decls) == { o.id : o \in decls }
SameTypePairs == { <<t, t>> : t \in {"bool", "double", "int", "string"} }

IndexForm(x, f) == Call(Index, FALSE, <<x, Literal("string", f)>>)

\* C16: for every operand x and field f the macro rewrites has(x.f) and
\* has(x['f']) to the same presence test on x and f.
C16_SelectAndIndexAgree ==
    Expanded =>
        \A x \in Operands, f \in Fields :
            macroArg \in {Select(x, f), IndexForm(x, f)} =>
                expansion = Rewrite(NewPresenceTest(x, f))

C16_Witness ==
    /\ Expanded
    /\ macroArg = IndexForm(Select(Ident("request"), "headers"), "user-agent")
    /\ expansion.expr =
           NewPresenceTest(Select(Ident("request"), "headers"), "user-agent")

\* The shapes the macro is meant to recognise.
IsSelectShape(a) == a.kind = "select"
IsStringIndexShape(a) ==
    /\ a.kind = "call"
    /\ a.function = "_[_]"
    /\ ~a.member
    /\ Len(a.args) = 2
    /\ a.args[2].kind = "literal"
    /\ a.args[2].type = "string"

\* C17: for every argument that is neither a field select nor a non-member
\* two-argument index call with a string literal key the macro returns no
\* rewrite and no error; it never returns an error.
C17_OtherShapesNoMatch ==
    Expanded =>
        /\ expansion.err = NilRef
        /\ (~IsSelectShape(macroArg) /\ ~IsStringIndexShape(macroArg)) =>
              expansion.expr = NilRef

C17_Witness ==
    /\ Expanded
    /\ macroArg = Call(Index, TRUE, <<Ident("x"), Literal("string", "f")>>)
    /\ expansion = NoMatch

(***************************************************************************)
(* Properties of the function library (specification SpecFuncs).           *)
(***************************************************************************)
\* The ASCII fold a function name stands for.
Fold(f, c) ==
    IF f = "lower" THEN (IF c \in 65 .. 90 THEN c + 32 ELSE c)
    ELSE (IF c \in 97 .. 122 THEN c - 32 ELSE c)

\* C18: lower(s) and upper(s) return a string of as many code points as s,
\* with every code point above the ASCII range unchanged at its position
\* and every ASCII code point folded to lower (upper) case.
C18_AsciiFoldInPlace ==
    fn \in {"lower", "upper"} =>
        /\ ret.kind = "value"
        /\ Len(ret.val) = Len(arg)
        /\ \A i \in 1 .. Len(arg) :
              ret.val[i] = IF arg[i] > 127 THEN arg[i] ELSE Fold(fn, arg[i])

\* C19: every function of the library returns a value or a typed error
\* value for every input; none indexes out of range or panics.
C19_Total ==
    fn # "none" => ret.kind \in {"value", "error"}

\* C20: base64Decode of the padded and of the unpadded standard encoding of
\* a byte string b returns b.
C20_DecodeInvertsEncode ==
    fn = "base64Decode" =>
        \A e \in Encodings : arg = e.s => ret = Value(e.b)

\* base64Decode("YWJj") = "abc"
C20_Witness ==
    /\ fn = "base64Decode"
    /\ arg = <<89, 87, 74, 106>>
    /\ ret = Value(<<97, 98, 99>>)

\* The bytes of the argument.
ArgBytes == StringBytes(arg)

\* The value of a hex digit, by its place among the sixteen digits.
DigitValue(c) ==
    LET lc == IF c \in 65 .. 70 THEN c + 32 ELSE c
    IN  CHOOSE d \in 0 .. 15 : kHexChar[d + 1] = lc

HexDigit(c) == c \in { kHexChar[d] : d \in 1 .. 16 } \cup (65 .. 70)

\* Every '%' of s starts a %XX escape.
WellFormed(s) ==
    \A i \in 1 .. Len(s) :
        s[i] = 37 =>
            (i + 2 <= Len(s) /\ HexDigit(s[i + 1]) /\ HexDigit(s[i + 2]))

\* A well-formed s with its escapes decoded and each '+' replaced by plus.
RECURSIVE PercentDecoded(_, _)
PercentDecoded(s, plus) ==
    IF s = <<>> THEN <<>>
    ELSE IF s[1] = 37
    THEN <<16 * DigitValue(s[2]) + DigitValue(s[3])>> \o
         PercentDecoded(SubSeq(s, 4, Len(s)), plus)
    ELSE IF s[1] = 43 THEN <<plus>> \o PercentDecoded(Tail(s), plus)
    ELSE <<s[1]>> \o PercentDecoded(Tail(s), plus)

\* C21 as stated: urlDecode decodes each well-formed %XX escape and leaves
\* every '+' a literal '+'.
C21_PlusKeptLiteral ==
    (fn = "urlDecode" /\ WellFormed(ArgBytes)) =>
        ret = Value(PercentDecoded(ArgBytes, 43))

\* C21 amended: urlDecode decodes each well-formed %XX escape and turns
\* every '+' into a space, and returns an error exactly when some '%' does
\* not start a %XX escape.
C21_PlusDecodedAsSpace ==
    fn = "urlDecode" =>
        IF WellFormed(ArgBytes)
        THEN ret = Value(PercentDecoded(ArgBytes, 32))
        ELSE ret.kind = "error"

\* urlDecode("value=Url+Encoded%21") = "value=Url Encoded!"
C21_Witness ==
    /\ fn = "urlDecode"
    /\ arg = UrlDecodeQuery
    /\ ret = Value(<<118, 97, 108, 117, 101, 61, 85, 114, 108, 32, 69, 110,
                     99, 111, 100, 101, 100, 33>>)

\* C22: in urlDecodeUni, '%u' or '%U' followed by any four hex digits is
\* decoded as the code point with that hex value; the query of the
\* repository's test decodes to "value=Unicode Url Encoded!".
C22_PercentUDecoded ==
    fn = "urlDecodeUni" =>
        /\ (/\ Len(ArgBytes) = 6
            /\ ArgBytes[1] = 37
            /\ ArgBytes[2] \in {117, 85}
            /\ \A j \in 3 .. 6 : HexDigit(ArgBytes[j])) =>
              ret = Value(Utf8(4096 * DigitValue(ArgBytes[3]) +
                               256 * DigitValue(ArgBytes[4]) +
                               16 * DigitValue(ArgBytes[5]) +
                               DigitValue(ArgBytes[6])))
        /\ arg = UrlDecodeUniQuery =>
              ret = Value(<<118, 97, 108, 117, 101, 61, 85, 110, 105, 99,
                            111, 100, 101, 32, 85, 114, 108, 32, 69, 110, 99,
                            111, 100, 101, 100, 33>>)

\* A '%u' or '%U' at offset i of s that is truncated or whose four
\* following characters are not all hex digits.
MalformedU(s, i) ==
    /\ s[i] = 37
    /\ i + 1 <= Len(s)
    /\ s[i + 1] \in {117, 85}
    /\ \/ i + 5 > Len(s)
       \/ \E j \in i + 2 .. i + 5 : ~HexDigit(s[j])

\* C23: urlDecodeUni returns an error, and no decoded string, for every
\* input with a malformed '%u' sequence, truncated or with a non-hex
\* character among the four.
C23_MalformedUIsError ==
    (/\ fn = "urlDecodeUni"
     /\ \E i \in 1 .. Len(ArgBytes) : MalformedU(ArgBytes, i)) =>
        ret.kind = "error"

\* The hex digits of a number, most significant first, at least four.
RECURSIVE HexDigits(_)
HexDigits(c) ==
    IF c < 16 THEN <<kHexChar[c + 1]>>
    ELSE Append(HexDigits(c \div 16), kHexChar[(c % 16) + 1])
RECURSIVE PadFour(_)
PadFour(d) == IF Len(d) >= 4 THEN d ELSE PadFour(<<48>> \o d)

Escaped(c) ==
    IF c < 128 \/ (c >= 55296 /\ c <= 57343) \/ c >= 1114112 THEN <<c>>
    ELSE <<37, 117>> \o PadFour(HexDigits(c))

RECURSIVE EscapedAll(_)
EscapedAll(str) ==
    IF str = <<>> THEN <<>> ELSE Escaped(Head(str)) \o EscapedAll(Tail(str))

\* C24: utf8ToUnicode copies every code point below 0x80 and writes every
\* other code point outside the surrogate range as %u and its lower-case
\* hex digits, four of them below 0x10000, five below 0x100000 and six from
\* there on; no index leaves the hex table.
C24_EscapeByCodePoint ==
    fn = "utf8ToUnicode" =>
        /\ ret = Value(EscapedAll(arg))
        /\ \A i \in 1 .. Len(arg) :
              Len(Escaped(arg[i])) =
                  IF arg[i] < 128 THEN 1
                  ELSE IF arg[i] < 65536 THEN 6
                  ELSE IF arg[i] < 1048576 THEN 7 ELSE 8

C24_Witness ==
    /\ fn = "utf8ToUnicode"
    /\ arg = <<1048576, 65536>>
    /\ ret = Value(<<37, 117, 49, 48, 48, 48, 48, 48,
                     37, 117, 49, 48, 48, 48, 48>>)

\* C26: base64Decode returns the result of the padded decoding when it
\* succeeds; otherwise, when the failure is a corrupt-input error, the
\* result of the unpadded decoding, and when that fails too the error of
\* the unpadded attempt; a failure of another kind is returned directly.
C26_SecondErrorReported ==
    fn = "base64Decode" =>
        LET std == DecodeString(StdEncoding, arg)
            raw == DecodeString(RawStdEncoding, arg)
        IN  /\ std.err = NoB64Error => ret = Value(std.b)
            /\ (std.err.kind = "CorruptInputError" /\ raw.err = NoB64Error) =>
                  ret = Value(raw.b)
            /\ (std.err.kind = "CorruptInputError" /\ raw.err # NoB64Error) =>
                  ret = NewErr(ErrorString(raw.err))
            /\ std.err.kind \notin {"nil", "CorruptInputError"} =>
                  ret = NewErr(ErrorString(std.err))

\* base64Decode("AAA=A"): the padded attempt fails at byte 4, the unpadded
\* one at byte 3, which is the one reported.
C26_Witness ==
    /\ fn = "base64Decode"
    /\ arg = <<65, 65, 65, 61, 65>>
    /\ DecodeString(StdEncoding, arg).err = CorruptInputError(4)
    /\ ret.kind = "error"
    /\ ret.err.at = 3

\* No '%' of s is followed by 'u' or 'U'.
NoPercentU(s) ==
    \A i \in 1 .. Len(s) - 1 : s[i] = 37 => s[i + 1] \notin {117, 85}

\* What the rules for '%XY' and '+' give for s, or "error" when a '%' has
\* fewer than two characters after it.
RECURSIVE PlainScan(_)
PlainScan(s) ==
    IF s = <<>> THEN [ok |-> TRUE, out |-> <<>>]
    ELSE LET decode == /\ s[1] = 37 /\ Len(s) >= 3
                       /\ HexDigit(s[2]) /\ HexDigit(s[3])
             rest == PlainScan(IF decode THEN SubSeq(s, 4, Len(s))
                               ELSE Tail(s))
             first == IF decode THEN 16 * DigitValue(s[2]) + DigitValue(s[3])
                      ELSE IF s[1] = 43 THEN 32 ELSE s[1]
         IN  IF s[1] = 37 /\ Len(s) < 3 THEN [ok |-> FALSE, out |-> <<>>]
             ELSE IF ~rest.ok THEN rest
             ELSE [ok |-> TRUE, out |-> <<first>> \o rest.out]

\* C27: in urlDecodeUni a '%' not followed by 'u' or 'U', with two
\* characters after it, is decoded with them as one byte when both are hex
\* digits; otherwise the '%' is copied and the scan goes on with the next
\* character, a '+' still becoming a space.
C27_PercentXY ==
    (fn = "urlDecodeUni" /\ NoPercentU(ArgBytes)) =>
        LET want == PlainScan(ArgBytes)
        IN  IF want.ok THEN ret = Value(want.out) ELSE ret.kind = "error"

\* urlDecodeUni("%+44") = "% 44"
C27_Witness ==
    /\ fn = "urlDecodeUni"
    /\ arg = <<37, 43, 52, 52>>
    /\ ret = Value(<<37, 32, 52, 52>>)

\* C28: urlDecodeUni returns an error and no string for every input with a
\* '%' as its last or second-to-last character.
C28_TrailingPercentIsError ==
    (/\ fn = "urlDecodeUni"
     /\ \E i \in 1 .. Len(ArgBytes) :
            ArgBytes[i] = 37 /\ i >= Len(ArgBytes) - 1) =>
        (ret.kind = "error" /\ ret.val = <<>>)

C28_Witness ==
    /\ fn = "urlDecodeUni"
    /\ arg = <<37, 52, 52, 43, 37, 52>>
    /\ ret = NewErr(InvalidEscapeSequence)

(***************************************************************************)
(* Properties of inIpRange (specification SpecIp).                         *)
(***************************************************************************)
\* The address q lies in the network of the first n bits of net: the two
\* agree on their first n bits, compared as two 16-bit halves.
InNetwork(q, net, n) ==
    LET hi(x) == x[1] * 256 + x[2]
        lo(x) == x[3] * 256 + x[4]
    IN  IF n <= 16
        THEN hi(q) \div (2 ^ (16 - n)) = hi(net) \div (2 ^ (16 - n))
        ELSE /\ hi(q) = hi(net)
             /\ lo(q) \div (2 ^ (32 - n)) = lo(net) \div (2 ^ (32 - n))

\* C25: inIpRange returns the invalid-address error when the address does
\* not parse, the invalid-range error when the address parses and the
\* prefix does not, and otherwise true exactly when the address lies in
\* the network; it never answers false for text that does not parse.
C25_ErrorNotFalse ==
    fn = "inIpRange" =>
        /\ arg[1] \in BadIPTexts =>
              (ret.kind = "error" /\ ret.err = InvalidIPAddress)
        /\ (arg[1] \notin BadIPTexts /\ arg[2] \in BadCIDRTexts) =>
              (ret.kind = "error" /\ ret.err = InvalidIPRange)
        /\ \A a \in IPTexts : arg[1] = a.s =>
              \A c \in CIDRTexts : arg[2] = c.s =>
                  (ret.kind = "value" /\ ret.val = InNetwork(a.q, c.q, c.n))

\* inIpRange("192.168.0.1", "192.168.0.0/16") is true
C25_Witness ==
    /\ fn = "inIpRange"
    /\ arg = <<DottedQuad(<<192, 168, 0, 1>>),
               DottedQuad(<<192, 168, 0, 0>>) \o <<Slash>> \o Itoa(16)>>
    /\ ret.kind = "value"
    /\ ret.val = TRUE

====
